---------------------------- MODULE Spec2Model ----------------------------
(***************************************************************************)
(* A model of the toxicology explorer's client-side pipeline:              *)
(*   - CompoundsViewer (data load, filter state, filtered list, embedding  *)
(*     loader and cache, selection, therapeutic dose),                     *)
(*   - useDebounce (the debounced parameter controller), as used for the   *)
(*     dose and for a range filter control,                                *)
(*   - EmbeddingScatter (the drag state machine, lasso and tap selection). *)
(*                                                                         *)
(* Conventions.  An optional value (undefined / null in the source) is a   *)
(* sequence of length 0 or 1: <<>> is "absent", <<v>> is "present v".      *)
(* Descriptor values are fixed-point numbers in hundredths (logd 0.35 is   *)
(* 35, hbd 2 is 200), so that the thresholds of the discrete predicates    *)
(* are integers.  Doses, screen coordinates and times (ms) are integers.   *)
(***************************************************************************)
EXTENDS Integers, Sequences, FiniteSets, TLC

VARIABLES
    \* ---- CompoundsViewer (src/src/components/CompoundsViewer.tsx:219-243)
    mounted,               \* the viewer has not been torn down
    compounds,             \* Compound[]
    metadataStats,         \* MetadataStats | null
    filters,               \* FiltersState | null
    loading,               \* boolean
    error,                 \* string | null
    embeddingIds,          \* string[] | null
    embeddingBasePoints,   \* EmbeddingPointBase[] | null
    embeddingCache,        \* Map<number, EmbeddingPointBase[]> (a ref)
    embeddingSelection,    \* string[]
    embeddingWeightIndex,  \* number
    embeddingLoading,      \* boolean
    embeddingError,        \* string | null
    therapeuticDose,       \* number
    doseRange,             \* {min,max} | null
    filteredCompounds,     \* the memoised filtered list (useMemo)
    compoundMargins,       \* the memoised margin map (useMemo)
    embeddingPoints,       \* EmbeddingPoint[] | null, set by the decorate effect
    scrollOffset,          \* the scroll offset of the window (the virtualized list)
    dataLoad,              \* the loadData() calls started so far: "pending" | "done"
    idsLoad,               \* the loadIds() call: [phase, cancelled]
    loads,                 \* the loadEmbedding() calls started so far
    baseFor,               \* history: option.index of the call that last committed base points
    lastReset,             \* history: the FiltersState a reset replaced, right after the reset
    \* ---- useDebounce (src/src/hooks.ts:12-53) and its timers
    now,                   \* the clock, ms
    ctl,                   \* per mounted controller: pendingValue, debounceRef, effect deps
    nextRef,               \* allocator of object identities ({min,max} literals)
    commits,               \* history: the invocations of the commit callback
    events,                \* history: scheduleChange calls, value-effect runs, teardowns, in order
    \* ---- EmbeddingScatter (src/src/components/EmbeddingExplorer.tsx:119-145)
    isDragging,            \* boolean
    lassoPath,             \* [number, number][] (state, drawn)
    lassoPathRef,          \* [number, number][] (ref, used by the selection test)
    hover,                 \* ScatterHoverState | null
    points,                \* the rendered points (prop)
    selectedIds,           \* the owner's selection (prop, set through onSelectionChange)
    emitted,               \* history: the last onSelectionChange call
    \* ---- the safety metrics functions (src/src/components/EmbeddingModal.tsx:94-205)
    metricCall,            \* the last call of one of them, or of one of the parsing
                           \* and histogram functions: its arguments and its result
    \* ---- the structure renderer's loader (src/src/components/MoleculeRenderer.tsx:14-117)
    window,                \* window.initRDKitModule is a function; window.RDKit
    rdkitState,            \* {scriptPromise, modulePromise}: null or a promise
    scripts,               \* the script[data-rdkit-script="true"] elements of the document
    scriptPromises,        \* the promises made by ensureRDKitScript(), by number
    modulePromises,        \* the promises made by loadRDKitModule()'s inner function
    callers                \* the loadRDKitModule() calls made so far

viewerVars == <<mounted, compounds, metadataStats, filters, loading, error,
                embeddingIds, embeddingBasePoints, embeddingCache,
                embeddingSelection, embeddingWeightIndex, embeddingLoading,
                embeddingError, therapeuticDose, doseRange, filteredCompounds,
                compoundMargins, embeddingPoints, scrollOffset,
                dataLoad, idsLoad, loads, baseFor, lastReset>>

debounceVars == <<now, ctl, nextRef, commits, events>>

scatterVars == <<isDragging, lassoPath, lassoPathRef, hover, points,
                 selectedIds, emitted>>

rdkitVars == <<window, rdkitState, scripts, scriptPromises, modulePromises,
               callers>>

utilityVars == <<metricCall, rdkitVars>>

vars == <<viewerVars, debounceVars, scatterVars, utilityVars>>

(***************************************************************************)
(* Generic helpers.                                                        *)
(***************************************************************************)
Range(s) == {s[i] : i \in DOMAIN s}

Min2(a, b) == IF a < b THEN a ELSE b

Max2(a, b) == IF a > b THEN a ELSE b

\* Array.prototype.filter with a predicate given as a set of kept elements
RECURSIVE FilterIn(_, _)
FilterIn(s, keep) ==
    IF s = <<>> THEN <<>>
    ELSE IF Head(s) \in keep THEN <<Head(s)>> \o FilterIn(Tail(s), keep)
    ELSE FilterIn(Tail(s), keep)

\* Math.min(...values), Math.max(...values) of a non-empty array
RECURSIVE MinOf(_)
MinOf(s) == IF Len(s) = 1 THEN s[1] ELSE Min2(s[1], MinOf(Tail(s)))

RECURSIVE MaxOf(_)
MaxOf(s) == IF Len(s) = 1 THEN s[1] ELSE Max2(s[1], MaxOf(Tail(s)))


(***************************************************************************)
(* JavaScript values, as the LD50 fields and the safety metrics functions  *)
(* (src/src/components/EmbeddingModal.tsx:94-205) handle them.             *)
(*                                                                         *)
(* A JavaScript value is a record [kind, num, den]: a finite number is the *)
(* exact fraction num/den (den > 0), the other kinds are "NaN",            *)
(* "Infinity", "-Infinity", "null" and "string".  A property a record does *)
(* not have is absent (<<>>), as is a null result.  Division of two finite *)
(* numbers is exact; overflow and rounding of doubles are not modelled.    *)
(***************************************************************************)
Num(n) == [kind |-> "finite", num |-> n, den |-> 1]

Ratio(n, d) == [kind |-> "finite", num |-> n, den |-> d]

NotANumber == [kind |-> "NaN", num |-> 0, den |-> 1]

PlusInfinity == [kind |-> "Infinity", num |-> 1, den |-> 1]

MinusInfinity == [kind |-> "-Infinity", num |-> -1, den |-> 1]

NullValue == [kind |-> "null", num |-> 0, den |-> 1]

StringValue(n) == [kind |-> "string", num |-> n, den |-> 1]

\* The value LD50 fields use for "no toxicity observed"
LdSentinel == 10000

(***************************************************************************)
(* Configuration of the viewer.                                            *)
(***************************************************************************)
\* RANGE_FILTERS: the descriptor keys that have a range control, in order
RANGE_FILTERS == <<"mw", "logp", "tpsa", "qed_value", "sas_score">>

\* DISCRETE_FILTERS: each key with the values of its options, in order
DISCRETE_FILTERS ==
    << [key |-> "logd",  options |-> <<"any", "lt0", "0to1", "1to2", "gt2">>],
       [key |-> "hbd",   options |-> <<"any", "2", "3">>],
       [key |-> "hba",   options |-> <<"any", "6", "7", "8", "9", "10", "11">>],
       [key |-> "fcsp3", options |-> <<"any", "lt0.2", "0.2-0.35", "gt0.35">>] >>

\* (value ?? 0): an absent value read as 0
OrZero(value) == IF value = <<>> THEN 0 ELSE value[1]

\* option.predicate(value) of the option `option` of the discrete filter `key`;
\* `value` is the compound's optional descriptor value, in hundredths
Predicate(key, option, value) ==
    CASE option = "any" -> TRUE
      [] key = "logd" /\ option = "lt0"  -> OrZero(value) < 0
      [] key = "logd" /\ option = "0to1" ->
            IF value = <<>> THEN FALSE ELSE value[1] >= 0 /\ value[1] <= 100
      [] key = "logd" /\ option = "1to2" ->
            IF value = <<>> THEN FALSE ELSE value[1] > 100 /\ value[1] <= 200
      [] key = "logd" /\ option = "gt2"  -> OrZero(value) > 200
      [] key = "hbd" /\ option = "2" -> value = <<200>>
      [] key = "hbd" /\ option = "3" -> value = <<300>>
      [] key = "hba" /\ option = "6" -> value = <<600>>
      [] key = "hba" /\ option = "7" -> value = <<700>>
      [] key = "hba" /\ option = "8" -> value = <<800>>
      [] key = "hba" /\ option = "9" -> value = <<900>>
      [] key = "hba" /\ option = "10" -> value = <<1000>>
      [] key = "hba" /\ option = "11" -> value = <<1100>>
      [] key = "fcsp3" /\ option = "lt0.2" -> OrZero(value) < 20
      [] key = "fcsp3" /\ option = "0.2-0.35" ->
            IF value = <<>> THEN FALSE ELSE value[1] >= 20 /\ value[1] <= 35
      [] key = "fcsp3" /\ option = "gt0.35" -> OrZero(value) > 35

\* EMBEDDING_OPTIONS: the indexes of the 11 weight options
EMBEDDING_OPTIONS == 0 .. 10

(***************************************************************************)
(* The data the collaborators serve (inputs of the model).                 *)
(***************************************************************************)
\* compound[key]: the optional descriptor value of a compound record
Field(compound, key) == IF key \in DOMAIN compound THEN <<compound[key]>> ELSE <<>>

\* The compound dataset served at dataUrl.  "d" has no logp (a range key with
\* stats), "c" has no logd and no hbd; `doses` is the token list of the doses
\* string of a record (<<>> is a token that is not a number).
Dataset ==
    << [name |-> "a", mw |-> 100, logp |-> 0,   logd |-> -50, hbd |-> 200,
        hba |-> 600, fcsp3 |-> 10, doses |-> << <<2>>, <<>>, <<4>> >>,
        cell_count_ld50 |-> Num(100), ros_ld50 |-> Num(50)],
       [name |-> "b", mw |-> 200, logp |-> 100, logd |-> 50,  hbd |-> 300,
        hba |-> 700, fcsp3 |-> 30, doses |-> << <<2>>, <<4>> >>,
        ros_ld50 |-> Num(LdSentinel), ldh_ld50 |-> Num(6), bioactivity_ld50 |-> Num(1)],
       [name |-> "c", mw |-> 300, logp |-> 100, hba |-> 700, fcsp3 |-> 50,
        doses |-> << <<2>>, <<4>> >>],
       [name |-> "d", mw |-> 200, logd |-> 150, hbd |-> 200, hba |-> 600,
        fcsp3 |-> 50, doses |-> << <<2>>, <<4>> >>,
        mtt_ld50 |-> NullValue, cyto_area_ld50 |-> Num(9)] >>

\* The descriptor statistics served at metadataStatsUrl: a partial record,
\* tpsa, qed_value and sas_score have no stats
StatsData ==
    [mw |-> [min |-> 100, max |-> 300], logp |-> [min |-> 0, max |-> 100]]

\* The lines of /ids.txt (trimmed, non-blank)
IdsLines == <<"a", "b", "c">>

\* A coordinate file: a header line, then rows id?,x,y; a field that does not
\* convert to a finite number is <<>>.  The id "x" is the name of no compound.
HeaderRow == [id |-> "id", x |-> <<>>, y |-> <<>>]

CsvA == << HeaderRow, [id |-> "", x |-> <<1>>, y |-> <<1>>],
           [id |-> "", x |-> <<>>, y |-> <<2>>],
           [id |-> "", x |-> <<3>>, y |-> <<3>>] >>

CsvB == << HeaderRow, [id |-> "", x |-> <<2>>, y |-> <<2>>],
           [id |-> "", x |-> <<4>>, y |-> <<4>>],
           [id |-> "x", x |-> <<6>>, y |-> <<6>>] >>

CsvC == << HeaderRow, [id |-> "c", x |-> <<0>>, y |-> <<0>>],
           [id |-> "", x |-> <<1>>, y |-> <<1>>],
           [id |-> "", x |-> <<2>>, y |-> <<2>>],
           [id |-> "", x |-> <<3>>, y |-> <<3>>] >>

\* What the server may answer for option.url (the file may change between
\* two fetches of the same url)
CsvResponses(index) == IF index = 5 THEN {CsvA, CsvB} ELSE {CsvC}

\* The weight indexes the user moves the slider to
WeightInputs == {5, 6}

\* The values a range control commits for a key: the pairs on the slider's grid
RangeInputs(key) ==
    LET st == StatsData[key]
        grid == {v \in st.min .. st.max : (v - st.min) % 100 = 0}
    IN  {p \in [min : grid, max : grid] : p.min <= p.max}

\* The option values the user picks in a discrete control
DiscreteInputs(key) ==
    CASE key = "logd"  -> {"any", "lt0", "0to1"}
      [] key = "hbd"   -> {"any", "2"}
      [] key = "hba"   -> {"any", "7"}
      [] key = "fcsp3" -> {"any", "gt0.35"}

\* The doses handed to the dose commit handler
DoseInputs == {1, 3, 5}

(***************************************************************************)
(* Pure functions of the viewer.                                           *)
(***************************************************************************)
\* parseNumericArrayString(input): `input` is absent (<<>>) or <<tokens>>, a
\* token being <<n>> when Number(token) is the number n and <<>> when it is NaN
ParseNumericArrayString(input) ==
    IF input = <<>> \/ input[1] = <<>> THEN <<>>
    ELSE LET RECURSIVE Values(_)
             Values(tokens) ==
                 IF tokens = <<>> THEN <<>>
                 ELSE IF Head(tokens) = <<>> THEN Values(Tail(tokens))
                 ELSE <<Head(tokens)[1]>> \o Values(Tail(tokens))
             values == Values(input[1])
         IN  IF Len(values) > 0 THEN <<values>> ELSE <<>>

\* A plausible slip: the fallback id is taken at the number of points kept so
\* far, so that a dropped row shifts the ids of the rows after it
ParseEmbeddingCsv_Shifting(lines, ids) ==
    IF Len(lines) <= 1 THEN <<>>
    ELSE LET body == Tail(lines)
             total == Min2(Len(body), Len(ids))
             RECURSIVE Loop(_, _)
             Loop(index, kept) ==
                 IF index > total THEN <<>>
                 ELSE LET row == body[index]
                      IN  IF row.x = <<>> \/ row.y = <<>> THEN Loop(index + 1, kept)
                          ELSE << [id |-> IF row.id # "" THEN row.id
                                          ELSE ids[kept + 1],
                                   x |-> row.x[1], y |-> row.y[1]] >>
                               \o Loop(index + 1, kept + 1)
         IN  Loop(1, 0)

\* parseEmbeddingCsv(csvText, ids): csvText as its trimmed non-blank lines
ParseEmbeddingCsv(lines, ids) ==
    IF Len(lines) <= 1 THEN <<>>
    ELSE LET body == Tail(lines)
             total == Min2(Len(body), Len(ids))
             RECURSIVE Loop(_)
             Loop(index) ==        \* index is 1-based here, 0-based in the source
                 IF index > total THEN <<>>
                 ELSE LET row == body[index]
                      IN  IF row.x = <<>> \/ row.y = <<>> THEN Loop(index + 1)
                          ELSE << [id |-> IF row.id # "" THEN row.id ELSE ids[index],
                                   x |-> row.x[1], y |-> row.y[1]] >>
                               \o Loop(index + 1)
         IN  Loop(1)

\* The callback of compounds.filter in filteredCompounds, with its early returns
KeepCompound(compound, selection, flt, stats) ==
    LET appliesEmbeddingFilter == Len(selection) > 0
        RECURSIVE DiscreteLoop(_)
        DiscreteLoop(i) ==
            IF i > Len(DISCRETE_FILTERS) THEN TRUE
            ELSE LET config == DISCRETE_FILTERS[i]
                     value == Field(compound, config.key)
                     selectedValue == Field(flt[1].discrete, config.key)
                     found == {o \in Range(config.options) : <<o>> = selectedValue}
                 IN  IF found = {} THEN DiscreteLoop(i + 1)
                     ELSE IF ~ Predicate(config.key, CHOOSE o \in found : TRUE, value)
                          THEN FALSE
                          ELSE DiscreteLoop(i + 1)
        RECURSIVE RangeLoop(_)
        RangeLoop(i) ==
            IF i > Len(RANGE_FILTERS) THEN DiscreteLoop(1)
            ELSE LET key == RANGE_FILTERS[i]
                     st == IF stats = <<>> THEN <<>> ELSE Field(stats[1], key)
                     rangeFilter == Field(flt[1].range, key)
                     value == Field(compound, key)
                 IN  IF st = <<>> \/ rangeFilter = <<>> THEN RangeLoop(i + 1)
                     ELSE IF value = <<>> THEN FALSE
                     ELSE IF value[1] < rangeFilter[1].min \/ value[1] > rangeFilter[1].max
                          THEN FALSE
                          ELSE RangeLoop(i + 1)
    IN  IF appliesEmbeddingFilter /\ compound.name \notin Range(selection) THEN FALSE
        ELSE IF flt = <<>> THEN TRUE
        ELSE RangeLoop(1)

\* compounds.filter(...) of filteredCompounds
RECURSIVE FilterCompounds(_, _, _, _)
FilterCompounds(cs, selection, flt, stats) ==
    IF cs = <<>> THEN <<>>
    ELSE IF KeepCompound(Head(cs), selection, flt, stats)
         THEN <<Head(cs)>> \o FilterCompounds(Tail(cs), selection, flt, stats)
         ELSE FilterCompounds(Tail(cs), selection, flt, stats)

\* A plausible slip: the dependency list without embeddingSelectionSet
FilteredDeps_LengthOnly(cs, selection, flt, stats) ==
    <<cs, Len(selection), flt, stats>>

\* The dependency list of the filteredCompounds memo: embeddingSelectionSet is
\* itself a memo of embeddingSelection and changes whenever that array does
FilteredDeps(cs, selection, flt, stats) ==
    <<cs, Len(selection), selection, flt, stats>>

\* The value of the filteredCompounds memo after a step: recomputed when a
\* dependency changed, else the value of the previous render
FilteredCompoundsMemo ==
    IF FilteredDeps(compounds', embeddingSelection', filters', metadataStats')
         # FilteredDeps(compounds, embeddingSelection, filters, metadataStats)
    THEN FilterCompounds(compounds', embeddingSelection', filters', metadataStats')
    ELSE filteredCompounds

(***************************************************************************)
(* The safety metrics functions                                            *)
(* (src/src/components/EmbeddingModal.tsx:94-205).                         *)
(***************************************************************************)
\* typeof value === "number"
IsNumber(value) == value.kind \in {"finite", "NaN", "Infinity", "-Infinity"}

\* Number.isFinite(value)
IsFinite(value) == value.kind = "finite"

\* a < b, for numbers: false when either is NaN
LessThan(a, b) ==
    CASE a.kind = "NaN" \/ b.kind = "NaN" -> FALSE
      [] a.kind = "Infinity" -> FALSE
      [] a.kind = "-Infinity" -> b.kind # "-Infinity"
      [] b.kind = "Infinity" -> TRUE
      [] b.kind = "-Infinity" -> FALSE
      [] OTHER -> a.num * b.den < b.num * a.den

\* a === b, for numbers
NumberEquals(a, b) ==
    CASE a.kind = "NaN" \/ b.kind = "NaN" -> FALSE
      [] a.kind # "finite" \/ b.kind # "finite" -> a.kind = b.kind
      [] OTHER -> a.num * b.den = b.num * a.den

\* A plausible slip: the LD50 is multiplied by the dose
Divide_Times(a, b) == Ratio(a.num * b.num, a.den * b.den)

\* a / b, for finite a and finite b > 0
Divide(a, b) == Ratio(a.num * b.den, a.den * b.num)

\* TOXIC_ENDPOINT_PREFIXES
TOXIC_ENDPOINT_PREFIXES ==
    <<"cell_count", "cyto_area", "nuclei_size", "vacuoles", "mito_puncta",
      "ros", "mtt", "ldh">>

\* A plausible slip: the sentinel is taken for a dose
IsValidLdValue_NoSentinel(value) ==
    /\ value # <<>>
    /\ IsNumber(value[1])
    /\ IsFinite(value[1])
    /\ LessThan(Num(0), value[1])

\* isValidLdValue(value), value a property that may be absent
IsValidLdValue(value) ==
    /\ value # <<>>
    /\ IsNumber(value[1])
    /\ IsFinite(value[1])
    /\ LessThan(Num(0), value[1])
    /\ ~ NumberEquals(value[1], Num(LdSentinel))

\* getEndpointLd50(compound, prefix)
GetEndpointLd50(compound, prefix) ==
    LET property == prefix \o "_ld50"
        raw == Field(compound, property)
    IN  IF ~ IsValidLdValue(raw) THEN <<>> ELSE raw

\* calculateEndpointMargin(compound, prefix, therapeuticDose)
CalculateEndpointMargin(compound, prefix, dose) ==
    IF ~ IsFinite(dose) \/ ~ LessThan(Num(0), dose) THEN <<>>
    ELSE LET ld50 == GetEndpointLd50(compound, prefix)
         IN  IF ld50 = <<>> THEN <<>> ELSE << Divide(ld50[1], dose) >>

\* A plausible slip: the first defined margin is kept
Lower_KeepFirst(margin, minMargin) == minMargin = <<>>

\* minMargin == null || margin < minMargin
Lower(margin, minMargin) == minMargin = <<>> \/ LessThan(margin, minMargin[1])

\* The forEach of calculateAggregateMargin from the i-th prefix on
RECURSIVE AggregateLoop(_, _, _, _)
AggregateLoop(compound, dose, i, minMargin) ==
    IF i > Len(TOXIC_ENDPOINT_PREFIXES) THEN minMargin
    ELSE LET margin == CalculateEndpointMargin(compound, TOXIC_ENDPOINT_PREFIXES[i], dose)
         IN  AggregateLoop(compound, dose, i + 1,
                           IF margin = <<>> THEN minMargin
                           ELSE IF Lower(margin[1], minMargin) THEN margin
                           ELSE minMargin)

\* calculateAggregateMargin(compound, therapeuticDose)
CalculateAggregateMargin(compound, dose) == AggregateLoop(compound, dose, 1, <<>>)

\* A plausible slip: a boundary value falls in the lower class
AtLeast_Strict(margin, n) == LessThan(Num(n), margin)

\* margin >= n
AtLeast(margin, n) == LessThan(Num(n), margin) \/ NumberEquals(margin, Num(n))

\* classifyMarginLevel(margin)
ClassifyMarginLevel(margin) ==
    IF margin = <<>> \/ ~ IsFinite(margin[1]) THEN "ALERT"
    ELSE IF AtLeast(margin[1], 10) THEN "BROAD"
    ELSE IF AtLeast(margin[1], 3) THEN "MODERATE"
    ELSE IF AtLeast(margin[1], 1) THEN "NARROW"
    ELSE "ALERT"

\* getEndpointMargins(compound, therapeuticDose), and the endpoints record
\* that compoundMargins builds
GetEndpointMargins(compound, dose) ==
    [prefix \in Range(TOXIC_ENDPOINT_PREFIXES) |->
        CalculateEndpointMargin(compound, prefix, dose)]

\* The dependency list of a plausible slip: the margins memo without the dose
MarginsDeps_NoDose(cs, dose) == <<cs>>

\* The dependency list of the compoundMargins memo
MarginsDeps(cs, dose) == <<cs, dose>>

\* The forEach of compoundMargins from the i-th compound on: map.set(name, ...)
RECURSIVE MarginsLoop(_, _, _, _)
MarginsLoop(cs, dose, i, map) ==
    IF i > Len(cs) THEN map
    ELSE LET entry == [aggregate |-> CalculateAggregateMargin(cs[i], Num(dose)),
                       endpoints |-> GetEndpointMargins(cs[i], Num(dose))]
         IN  MarginsLoop(cs, dose, i + 1,
                         [n \in DOMAIN map \cup {cs[i].name} |->
                             IF n = cs[i].name THEN entry ELSE map[n]])

\* The body of the compoundMargins memo: a Map from compound names, as a function
CompoundMargins(cs, dose) ==
    IF dose <= 0 THEN <<>> ELSE MarginsLoop(cs, dose, 1, <<>>)

\* The value of the compoundMargins memo after a step
CompoundMarginsMemo ==
    IF MarginsDeps(compounds', therapeuticDose') # MarginsDeps(compounds, therapeuticDose)
    THEN CompoundMargins(compounds', therapeuticDose')
    ELSE compoundMargins

\* decorateEmbeddingPoints(basePoints), given the compounds (compoundByName is
\* a Map built from them: the last record of a name is the one found) and
\* the margins
DecorateEmbeddingPoints(basePoints, cs, margins) ==
    [i \in DOMAIN basePoints |->
        LET basePoint == basePoints[i]
            found == {k \in DOMAIN cs : cs[k].name = basePoint.id}
            compound == IF found = {} THEN <<>>
                        ELSE << cs[CHOOSE k \in found : \A j \in found : j <= k] >>
            marginData == IF compound # <<>> /\ compound[1].name \in DOMAIN margins
                          THEN << margins[compound[1].name] >> ELSE <<>>
        IN  [id |-> basePoint.id, x |-> basePoint.x, y |-> basePoint.y,
             compound |-> compound,
             safetyMetric |-> IF marginData = <<>> THEN <<>>
                              ELSE marginData[1].aggregate]]

\* The dependency list of a plausible slip: the decorate effect without the
\* decorating function
DecorateDeps_BaseOnly(base, cs, dose) == <<base>>

\* The dependency list of the decorate effect: the base points and
\* decorateEmbeddingPoints, a callback of compoundByName ([compounds]) and
\* compoundMargins ([compounds, therapeuticDose])
DecorateDeps(base, cs, dose) == <<base, cs, dose>>

\* embeddingPoints after a step: set by the decorate effect of the render
\* that follows, when the viewer is mounted and a dependency changed
EmbeddingPointsMemo ==
    IF /\ mounted'
       /\ DecorateDeps(embeddingBasePoints', compounds', therapeuticDose')
            # DecorateDeps(embeddingBasePoints, compounds, therapeuticDose)
    THEN IF embeddingBasePoints' = <<>> THEN <<>>
         ELSE << DecorateEmbeddingPoints(embeddingBasePoints'[1], compounds',
                                         compoundMargins') >>
    ELSE embeddingPoints

\* The dependency list of the scroll reset effect, the stable rowVirtualizer
\* left out
ScrollDeps(filtered, flt, selection) == <<Len(filtered), flt, Len(selection)>>

\* The scroll offset after a step: rowVirtualizer.scrollToOffset(0) by the
\* scroll reset effect of the render that follows, when the viewer is mounted
\* and a dependency changed.  `newFilters` is whether the step handed
\* setFilters a new object, which differs from the previous one by identity
ScrollOffsetEffect(newFilters) ==
    IF /\ mounted'
       /\ \/ newFilters
          \/ ScrollDeps(filteredCompounds', filters', embeddingSelection')
               # ScrollDeps(filteredCompounds, filters, embeddingSelection)
    THEN 0
    ELSE scrollOffset

\* The FiltersState built from the stats: by the seed effect and by reset
SeedFilters(stats) ==
    [range |-> [key \in {k \in Range(RANGE_FILTERS) : k \in DOMAIN stats}
                    |-> [min |-> stats[key].min, max |-> stats[key].max]],
     discrete |-> [key \in {DISCRETE_FILTERS[i].key :
                              i \in {j \in DOMAIN DISCRETE_FILTERS :
                                       Len(DISCRETE_FILTERS[j].options) > 0}}
                    |-> (CHOOSE c \in Range(DISCRETE_FILTERS) : c.key = key).options[1]]]

\* A plausible slip: the selection is kept as it is when base points change
PruneSelection_Keep(previous, base) == previous

\* previous.filter((id) => base.some((point) => point.id === id))
PruneSelection(previous, base) == FilterIn(previous, {base[i].id : i \in DOMAIN base})

\* Math.min(Math.max(dose, range.min), range.max)
ClampDose(dose, range) == Min2(Max2(dose, range.min), range.max)

(***************************************************************************)
(* Bounds of the model.                                                    *)
(***************************************************************************)
\* loadEmbedding calls that issue a fetch, per run
MaxLoads == 3

(***************************************************************************)
(* CompoundsViewer: the embedding loader.                                  *)
(*                                                                         *)
(* A loadEmbedding call that issued a fetch is a record                    *)
(*   index     the option.index of its closure,                            *)
(*   cancelled the `cancelled` flag of its effect run,                     *)
(*   phase     "fetch" (awaiting fetch), "text" (awaiting response.text()),*)
(*             "done",                                                     *)
(*   outcome   how it ended: "committed", "failed", "stale" (it returned   *)
(*             at the cancelled check), "staleFailed" (it threw while      *)
(*             cancelled); "pending" before.                               *)
(***************************************************************************)
\* The cleanup of the loadEmbedding effect: cancelled = true
CancelLoads(ls) == [l \in DOMAIN ls |-> [ls[l] EXCEPT !.cancelled = TRUE]]

\* A plausible slip: no check after the await
StaleAfterText_Unchecked(load) == FALSE

\* `if (cancelled) return` after `await response.text()`
StaleAfterText(load) == load.cancelled

\* A plausible slip: the cache is never consulted
CachedBase_Miss(index) == <<>>

\* embeddingCache.current.get(option.index)
CachedBase(index) == embeddingCache[index]

\* The loadEmbedding effect guards: ids loaded and non-empty, compounds loaded
EmbeddingEffectRuns(ids, cs) == ids # <<>> /\ Len(ids[1]) > 0 /\ Len(cs) > 0

\* The synchronous part of loadEmbedding() for `index`, started by the effect
\* after its previous run was cleaned up.  Gives the values after it.
StartLoadEmbedding(index, sel, ls) ==
    LET cleaned == CancelLoads(ls)
        same == [base |-> embeddingBasePoints, selection |-> sel,
                 loadingFlag |-> embeddingLoading, err |-> embeddingError,
                 ls |-> cleaned, baseFor |-> baseFor]
    IN  IF index \notin EMBEDDING_OPTIONS THEN same
        ELSE LET cachedBase == CachedBase(index)
             IN  IF cachedBase # <<>>
                 THEN [same EXCEPT !.base = cachedBase,
                                   !.selection = PruneSelection(sel, cachedBase[1]),
                                   !.baseFor = <<index>>]
                 ELSE [same EXCEPT !.loadingFlag = TRUE,
                                   !.err = <<>>,
                                   !.ls = Append(cleaned,
                                            [index |-> index, cancelled |-> FALSE,
                                             phase |-> "fetch", outcome |-> "pending"])]

\* The loadEmbedding effect after a render in which a dependency changed
\* (compounds.length, embeddingIds, embeddingWeightIndex); `ids`, `cs` and
\* `index` are the values of that render
RunEmbeddingEffect(ids, cs, index) ==
    LET r == IF EmbeddingEffectRuns(ids, cs)
             THEN StartLoadEmbedding(index, embeddingSelection, loads)
             ELSE [base |-> embeddingBasePoints, selection |-> embeddingSelection,
                   loadingFlag |-> embeddingLoading, err |-> embeddingError,
                   ls |-> CancelLoads(loads), baseFor |-> baseFor]
    IN  /\ embeddingBasePoints' = r.base
        /\ embeddingSelection' = r.selection
        /\ embeddingLoading' = r.loadingFlag
        /\ embeddingError' = r.err
        /\ loads' = r.ls
        /\ baseFor' = r.baseFor

\* The effect would have to issue a fetch
NeedsFetch(ids, cs, index) ==
    /\ EmbeddingEffectRuns(ids, cs)
    /\ index \in EMBEDDING_OPTIONS
    /\ CachedBase(index) = <<>>

(***************************************************************************)
(* CompoundsViewer: the loads at mount.                                    *)
(***************************************************************************)
\* The l-th loadData() call settles: both fetches succeeded and the dataset
\* (an array) and the stats are those given
LoadDataOkOf(l, dataset, stats) ==
    /\ l \in DOMAIN dataLoad
    /\ dataLoad[l] = "pending"
    /\ dataLoad' = [dataLoad EXCEPT ![l] = "done"]
    /\ compounds' = dataset
    /\ metadataStats' = <<stats>>
    /\ LET doseValues == IF Len(dataset) > 0
                         THEN ParseNumericArrayString(Field(dataset[1], "doses"))
                         ELSE <<>>
       IN  IF doseValues # <<>> /\ Len(doseValues[1]) > 0
           THEN LET range == [min |-> MinOf(doseValues[1]), max |-> MaxOf(doseValues[1])]
                IN  /\ doseRange' = <<range>>
                    /\ therapeuticDose' = ClampDose(therapeuticDose, range)
           ELSE UNCHANGED <<doseRange, therapeuticDose>>
    /\ loading' = FALSE
    \* the seed effect ([metadataStats]) and the loadEmbedding effect
    \* ([compounds.length, ...]) of the render that follows
    /\ IF mounted
       THEN /\ filters' = IF filters # <<>> THEN filters ELSE <<SeedFilters(stats)>>
            /\ IF Len(dataset) # Len(compounds)
               THEN RunEmbeddingEffect(embeddingIds, dataset, embeddingWeightIndex)
               ELSE UNCHANGED <<embeddingBasePoints, embeddingSelection,
                                embeddingLoading, embeddingError, loads, baseFor>>
       ELSE UNCHANGED <<filters, embeddingBasePoints, embeddingSelection,
                        embeddingLoading, embeddingError, loads, baseFor>>
    /\ UNCHANGED <<mounted, error, embeddingIds, embeddingCache,
                   embeddingWeightIndex, idsLoad>>
    /\ lastReset' = <<>>
    /\ filteredCompounds' = FilteredCompoundsMemo
    /\ compoundMargins' = CompoundMarginsMemo
    /\ embeddingPoints' = EmbeddingPointsMemo
    /\ scrollOffset' = ScrollOffsetEffect(FALSE)

\* The loadData() call of the mount settles with the dataset and the stats
LoadDataOk == LoadDataOkOf(1, Dataset, StatsData)

\* A plausible slip: the stats are committed as soon as they are fetched,
\* before the dataset is validated
LoadDataFailOf_StatsFirst(l) ==
    /\ l \in DOMAIN dataLoad
    /\ dataLoad[l] = "pending"
    /\ dataLoad' = [dataLoad EXCEPT ![l] = "done"]
    /\ error' = <<"Compounds data is not an array">>
    /\ metadataStats' = <<StatsData>>
    /\ loading' = FALSE
    /\ UNCHANGED <<mounted, compounds, filters, embeddingIds,
                   embeddingBasePoints, embeddingCache, embeddingSelection,
                   embeddingWeightIndex, embeddingLoading, embeddingError,
                   therapeuticDose, doseRange, idsLoad, loads, baseFor>>
    /\ lastReset' = <<>>
    /\ filteredCompounds' = FilteredCompoundsMemo
    /\ compoundMargins' = CompoundMarginsMemo
    /\ embeddingPoints' = EmbeddingPointsMemo
    /\ scrollOffset' = ScrollOffsetEffect(FALSE)

\* The l-th loadData() call throws: a fetch failed, or the dataset is not an
\* array
LoadDataFailOf(l) ==
    /\ l \in DOMAIN dataLoad
    /\ dataLoad[l] = "pending"
    /\ dataLoad' = [dataLoad EXCEPT ![l] = "done"]
    /\ \E message \in {"Failed to fetch data", "Compounds data is not an array"} :
          error' = <<message>>
    /\ loading' = FALSE
    /\ UNCHANGED <<mounted, compounds, metadataStats, filters, embeddingIds,
                   embeddingBasePoints, embeddingCache, embeddingSelection,
                   embeddingWeightIndex, embeddingLoading, embeddingError,
                   therapeuticDose, doseRange, idsLoad, loads, baseFor>>
    /\ lastReset' = <<>>
    /\ filteredCompounds' = FilteredCompoundsMemo
    /\ compoundMargins' = CompoundMarginsMemo
    /\ embeddingPoints' = EmbeddingPointsMemo
    /\ scrollOffset' = ScrollOffsetEffect(FALSE)

\* The loadData() call of the mount throws
LoadDataFail == LoadDataFailOf(1)

\* The viewer is handed at most MaxDataLoads data sources in its life
MaxDataLoads == 2

\* The dataset served at the dataUrl the viewer is handed later
DatasetNext == << Dataset[2], Dataset[3] >>

\* The owner re-renders the viewer with another dataUrl: the loadData effect
\* ([data, dataUrl, metadataStatsData, metadataStatsUrl]) runs again and
\* calls loadData(); it has no cleanup
ChangeDataUrl ==
    /\ mounted
    /\ Len(dataLoad) < MaxDataLoads
    /\ dataLoad' = Append(dataLoad, "pending")
    /\ UNCHANGED <<mounted, compounds, metadataStats, filters, loading, error,
                   embeddingIds, embeddingBasePoints, embeddingCache,
                   embeddingSelection, embeddingWeightIndex, embeddingLoading,
                   embeddingError, therapeuticDose, doseRange, idsLoad, loads,
                   baseFor>>
    /\ lastReset' = <<>>
    /\ filteredCompounds' = FilteredCompoundsMemo
    /\ compoundMargins' = CompoundMarginsMemo
    /\ embeddingPoints' = EmbeddingPointsMemo
    /\ scrollOffset' = ScrollOffsetEffect(FALSE)

\* A loadData() call for a later dataUrl settles, or throws
ReloadDataOk == \E l \in 2 .. MaxDataLoads : LoadDataOkOf(l, DatasetNext, StatsData)

ReloadDataFail == \E l \in 2 .. MaxDataLoads : LoadDataFailOf(l)

\* loadIds() settles with the text of /ids.txt
LoadIdsOk ==
    /\ idsLoad.phase = "pending"
    /\ idsLoad' = [idsLoad EXCEPT !.phase = "done"]
    /\ IF idsLoad.cancelled
       THEN UNCHANGED <<embeddingIds, embeddingBasePoints, embeddingSelection,
                        embeddingLoading, embeddingError, loads, baseFor>>
       ELSE /\ embeddingIds' = <<IdsLines>>
            /\ RunEmbeddingEffect(<<IdsLines>>, compounds, embeddingWeightIndex)
    /\ UNCHANGED <<mounted, compounds, metadataStats, filters, loading, error,
                   embeddingCache, embeddingWeightIndex, therapeuticDose,
                   doseRange, dataLoad>>
    /\ lastReset' = <<>>
    /\ filteredCompounds' = FilteredCompoundsMemo
    /\ compoundMargins' = CompoundMarginsMemo
    /\ embeddingPoints' = EmbeddingPointsMemo
    /\ scrollOffset' = ScrollOffsetEffect(FALSE)

\* A plausible slip: the catch of loadIds() reports through the global error
LoadIdsFail_GlobalError ==
    /\ idsLoad.phase = "pending"
    /\ idsLoad' = [idsLoad EXCEPT !.phase = "done"]
    /\ error' = IF idsLoad.cancelled THEN error
                ELSE <<"Failed to fetch embedding ids">>
    /\ UNCHANGED <<mounted, compounds, metadataStats, filters, loading,
                   embeddingError, embeddingIds, embeddingBasePoints,
                   embeddingCache, embeddingSelection, embeddingWeightIndex,
                   embeddingLoading, therapeuticDose, doseRange, dataLoad,
                   loads, baseFor>>
    /\ lastReset' = <<>>
    /\ filteredCompounds' = FilteredCompoundsMemo
    /\ compoundMargins' = CompoundMarginsMemo
    /\ embeddingPoints' = EmbeddingPointsMemo
    /\ scrollOffset' = ScrollOffsetEffect(FALSE)

\* loadIds() throws
LoadIdsFail ==
    /\ idsLoad.phase = "pending"
    /\ idsLoad' = [idsLoad EXCEPT !.phase = "done"]
    /\ embeddingError' = IF idsLoad.cancelled THEN embeddingError
                         ELSE <<"Failed to fetch embedding ids">>
    /\ UNCHANGED <<mounted, compounds, metadataStats, filters, loading, error,
                   embeddingIds, embeddingBasePoints, embeddingCache,
                   embeddingSelection, embeddingWeightIndex, embeddingLoading,
                   therapeuticDose, doseRange, dataLoad, loads, baseFor>>
    /\ lastReset' = <<>>
    /\ filteredCompounds' = FilteredCompoundsMemo
    /\ compoundMargins' = CompoundMarginsMemo
    /\ embeddingPoints' = EmbeddingPointsMemo
    /\ scrollOffset' = ScrollOffsetEffect(FALSE)

(***************************************************************************)
(* CompoundsViewer: the continuations of loadEmbedding().                  *)
(***************************************************************************)
Finish(l, how) == [loads EXCEPT ![l].phase = "done", ![l].outcome = how]

\* `await fetch(option.url)` resolves with response.ok
FetchResponds(l) ==
    /\ l \in DOMAIN loads
    /\ loads[l].phase = "fetch"
    /\ loads' = [loads EXCEPT ![l].phase = "text"]
    /\ UNCHANGED <<mounted, compounds, metadataStats, filters, loading, error,
                   embeddingIds, embeddingBasePoints, embeddingCache,
                   embeddingSelection, embeddingWeightIndex, embeddingLoading,
                   embeddingError, therapeuticDose, doseRange, dataLoad,
                   idsLoad, baseFor>>
    /\ lastReset' = <<>>
    /\ filteredCompounds' = FilteredCompoundsMemo
    /\ compoundMargins' = CompoundMarginsMemo
    /\ embeddingPoints' = EmbeddingPointsMemo
    /\ scrollOffset' = ScrollOffsetEffect(FALSE)

\* A plausible slip: catch and finally without the cancelled checks
FetchFails_Unchecked(l) ==
    /\ l \in DOMAIN loads
    /\ loads[l].phase \in {"fetch", "text"}
    /\ loads' = Finish(l, IF loads[l].cancelled THEN "staleFailed" ELSE "failed")
    /\ embeddingError' = <<"Failed to fetch embedding">>
    /\ embeddingLoading' = FALSE
    /\ UNCHANGED <<mounted, compounds, metadataStats, filters, loading, error,
                   embeddingIds, embeddingBasePoints, embeddingCache,
                   embeddingSelection, embeddingWeightIndex, therapeuticDose,
                   doseRange, dataLoad, idsLoad, baseFor>>
    /\ lastReset' = <<>>
    /\ filteredCompounds' = FilteredCompoundsMemo
    /\ compoundMargins' = CompoundMarginsMemo
    /\ embeddingPoints' = EmbeddingPointsMemo
    /\ scrollOffset' = ScrollOffsetEffect(FALSE)

\* The fetch rejects, the response is not ok, or response.text() rejects:
\* the catch block, then the finally block
FetchFails(l) ==
    /\ l \in DOMAIN loads
    /\ loads[l].phase \in {"fetch", "text"}
    /\ IF loads[l].cancelled
       THEN /\ loads' = Finish(l, "staleFailed")
            /\ UNCHANGED <<embeddingError, embeddingLoading>>
       ELSE /\ loads' = Finish(l, "failed")
            /\ embeddingError' = <<"Failed to fetch embedding">>
            /\ embeddingLoading' = FALSE
    /\ UNCHANGED <<mounted, compounds, metadataStats, filters, loading, error,
                   embeddingIds, embeddingBasePoints, embeddingCache,
                   embeddingSelection, embeddingWeightIndex, therapeuticDose,
                   doseRange, dataLoad, idsLoad, baseFor>>
    /\ lastReset' = <<>>
    /\ filteredCompounds' = FilteredCompoundsMemo
    /\ compoundMargins' = CompoundMarginsMemo
    /\ embeddingPoints' = EmbeddingPointsMemo
    /\ scrollOffset' = ScrollOffsetEffect(FALSE)

\* `await response.text()` resolves with the file: the cancelled check, the
\* parse, the cache write, the commit, then the finally block
TextArrives(l, csvText) ==
    /\ l \in DOMAIN loads
    /\ loads[l].phase = "text"
    /\ IF StaleAfterText(loads[l])
       THEN /\ loads' = Finish(l, "stale")
            /\ UNCHANGED <<embeddingCache, embeddingBasePoints, embeddingSelection,
                           embeddingLoading, baseFor>>
       ELSE LET parsedBase == ParseEmbeddingCsv(csvText, embeddingIds[1])
            IN  /\ embeddingCache' =
                       [embeddingCache EXCEPT ![loads[l].index] = <<parsedBase>>]
                /\ IF ~ loads[l].cancelled
                   THEN /\ embeddingBasePoints' = <<parsedBase>>
                        /\ embeddingSelection' =
                               PruneSelection(embeddingSelection, parsedBase)
                        /\ baseFor' = <<loads[l].index>>
                        /\ embeddingLoading' = FALSE
                        /\ loads' = Finish(l, "committed")
                   ELSE /\ loads' = Finish(l, "stale")
                        /\ UNCHANGED <<embeddingBasePoints, embeddingSelection,
                                       baseFor, embeddingLoading>>
    /\ UNCHANGED <<mounted, compounds, metadataStats, filters, loading, error,
                   embeddingIds, embeddingWeightIndex, embeddingError,
                   therapeuticDose, doseRange, dataLoad, idsLoad>>
    /\ lastReset' = <<>>
    /\ filteredCompounds' = FilteredCompoundsMemo
    /\ compoundMargins' = CompoundMarginsMemo
    /\ embeddingPoints' = EmbeddingPointsMemo
    /\ scrollOffset' = ScrollOffsetEffect(FALSE)

(***************************************************************************)
(* CompoundsViewer: the handlers of the main view.                         *)
(***************************************************************************)
\* The main view is rendered (no error, no loading screen) and mounted
ViewReady ==
    mounted /\ error = <<>> /\ ~ loading /\ filters # <<>> /\ metadataStats # <<>>

\* A plausible slip: the handler spreads the filter state it was created
\* with (here the seeded one) instead of the previous state
HandleRangeChange_FromSnapshot(key, value) ==
    /\ ViewReady
    /\ key \in DOMAIN filters[1].range /\ key \in DOMAIN metadataStats[1]
    /\ LET snapshot == SeedFilters(metadataStats[1])
       IN  filters' = << [snapshot EXCEPT
                           !.range = [k \in DOMAIN snapshot.range \cup {key} |->
                                        IF k = key THEN value ELSE snapshot.range[k]]] >>
    /\ UNCHANGED <<mounted, compounds, metadataStats, loading, error,
                   embeddingIds, embeddingBasePoints, embeddingCache,
                   embeddingSelection, embeddingWeightIndex, embeddingLoading,
                   embeddingError, therapeuticDose, doseRange, dataLoad,
                   idsLoad, loads, baseFor>>
    /\ lastReset' = <<>>
    /\ filteredCompounds' = FilteredCompoundsMemo
    /\ compoundMargins' = CompoundMarginsMemo
    /\ embeddingPoints' = EmbeddingPointsMemo
    /\ scrollOffset' = ScrollOffsetEffect(TRUE)

\* handleRangeChange(key, value), called by the range control of `key`
HandleRangeChange(key, value) ==
    /\ ViewReady
    /\ key \in DOMAIN filters[1].range /\ key \in DOMAIN metadataStats[1]
    /\ filters' = << [filters[1] EXCEPT
                        !.range = [k \in DOMAIN filters[1].range \cup {key} |->
                                     IF k = key THEN value ELSE filters[1].range[k]]] >>
    /\ UNCHANGED <<mounted, compounds, metadataStats, loading, error,
                   embeddingIds, embeddingBasePoints, embeddingCache,
                   embeddingSelection, embeddingWeightIndex, embeddingLoading,
                   embeddingError, therapeuticDose, doseRange, dataLoad,
                   idsLoad, loads, baseFor>>
    /\ lastReset' = <<>>
    /\ filteredCompounds' = FilteredCompoundsMemo
    /\ compoundMargins' = CompoundMarginsMemo
    /\ embeddingPoints' = EmbeddingPointsMemo
    /\ scrollOffset' = ScrollOffsetEffect(TRUE)

\* handleDiscreteChange(key, value), called by the select of `key`
HandleDiscreteChange(key, value) ==
    /\ ViewReady
    /\ filters' = << [filters[1] EXCEPT
                        !.discrete = [k \in DOMAIN filters[1].discrete \cup {key} |->
                                        IF k = key THEN value
                                        ELSE filters[1].discrete[k]]] >>
    /\ UNCHANGED <<mounted, compounds, metadataStats, loading, error,
                   embeddingIds, embeddingBasePoints, embeddingCache,
                   embeddingSelection, embeddingWeightIndex, embeddingLoading,
                   embeddingError, therapeuticDose, doseRange, dataLoad,
                   idsLoad, loads, baseFor>>
    /\ lastReset' = <<>>
    /\ filteredCompounds' = FilteredCompoundsMemo
    /\ compoundMargins' = CompoundMarginsMemo
    /\ embeddingPoints' = EmbeddingPointsMemo
    /\ scrollOffset' = ScrollOffsetEffect(TRUE)

\* A plausible slip: reset keeps the range entries
ResetFilters_KeepRange(previous, stats) ==
    [range |-> previous.range, discrete |-> SeedFilters(stats).discrete]

\* The updater of setFilters in handleResetFilters: it ignores the previous
\* state and builds rangeState and discreteState anew
ResetFilters(previous, stats) ==
    LET withStats == {i \in DOMAIN RANGE_FILTERS : RANGE_FILTERS[i] \in DOMAIN stats}
        withOptions == {i \in DOMAIN DISCRETE_FILTERS :
                          Len(DISCRETE_FILTERS[i].options) > 0}
        rangeState == [key \in {RANGE_FILTERS[i] : i \in withStats} |->
                         [min |-> stats[key].min, max |-> stats[key].max]]
        discreteState == [key \in {DISCRETE_FILTERS[i].key : i \in withOptions} |->
                            LET i == CHOOSE j \in withOptions :
                                        DISCRETE_FILTERS[j].key = key
                            IN  DISCRETE_FILTERS[i].options[1]]
    IN  [range |-> rangeState, discrete |-> discreteState]

\* A plausible slip: the reset button also clears the embedding selection
HandleResetFilters_ClearsSelection ==
    /\ ViewReady
    /\ filters' = <<ResetFilters(filters[1], metadataStats[1])>>
    /\ embeddingSelection' = <<>>
    /\ UNCHANGED <<mounted, compounds, metadataStats, loading, error,
                   embeddingIds, embeddingBasePoints, embeddingCache,
                   embeddingWeightIndex, embeddingLoading,
                   embeddingError, therapeuticDose, doseRange, dataLoad,
                   idsLoad, loads, baseFor>>
    /\ lastReset' = <<filters[1]>>
    /\ filteredCompounds' = FilteredCompoundsMemo
    /\ compoundMargins' = CompoundMarginsMemo
    /\ embeddingPoints' = EmbeddingPointsMemo
    /\ scrollOffset' = ScrollOffsetEffect(TRUE)

\* handleResetFilters()
HandleResetFilters ==
    /\ ViewReady
    /\ filters' = <<ResetFilters(filters[1], metadataStats[1])>>
    /\ UNCHANGED <<mounted, compounds, metadataStats, loading, error,
                   embeddingIds, embeddingBasePoints, embeddingCache,
                   embeddingSelection, embeddingWeightIndex, embeddingLoading,
                   embeddingError, therapeuticDose, doseRange, dataLoad,
                   idsLoad, loads, baseFor>>
    /\ lastReset' = <<filters[1]>>
    /\ filteredCompounds' = FilteredCompoundsMemo
    /\ compoundMargins' = CompoundMarginsMemo
    /\ embeddingPoints' = EmbeddingPointsMemo
    /\ scrollOffset' = ScrollOffsetEffect(TRUE)

\* The sub-lists of a list (the id lists a lasso or a tap can emit)
RECURSIVE SubSeqs(_)
SubSeqs(s) ==
    IF s = <<>> THEN {<<>>}
    ELSE LET rest == SubSeqs(Tail(s))
         IN  rest \cup {<<Head(s)>> \o r : r \in rest}

\* handleEmbeddingSelectionChange(ids): from the scatter plot (a lasso or a
\* tap over the displayed points, refused while loading) or from a Clear button
HandleEmbeddingSelectionChange(ids) ==
    /\ ViewReady
    /\ \/ ids = <<>>
       \/ /\ embeddingBasePoints # <<>>
          /\ ~ embeddingLoading
          /\ ids \in SubSeqs([i \in DOMAIN embeddingBasePoints[1] |->
                                embeddingBasePoints[1][i].id])
    /\ embeddingSelection' = ids
    /\ UNCHANGED <<mounted, compounds, metadataStats, filters, loading, error,
                   embeddingIds, embeddingBasePoints, embeddingCache,
                   embeddingWeightIndex, embeddingLoading, embeddingError,
                   therapeuticDose, doseRange, dataLoad, idsLoad, loads, baseFor>>
    /\ lastReset' = <<>>
    /\ filteredCompounds' = FilteredCompoundsMemo
    /\ compoundMargins' = CompoundMarginsMemo
    /\ embeddingPoints' = EmbeddingPointsMemo
    /\ scrollOffset' = ScrollOffsetEffect(FALSE)

\* handleEmbeddingWeightChange(index), then the render it causes: the cleanup
\* of the previous loadEmbedding effect and its new run
HandleEmbeddingWeightChange(index) ==
    /\ ViewReady
    /\ index # embeddingWeightIndex
    /\ NeedsFetch(embeddingIds, compounds, index) => Len(loads) < MaxLoads
    /\ embeddingWeightIndex' = index
    /\ RunEmbeddingEffect(embeddingIds, compounds, index)
    /\ UNCHANGED <<mounted, compounds, metadataStats, filters, loading, error,
                   embeddingIds, embeddingCache, therapeuticDose, doseRange,
                   dataLoad, idsLoad>>
    /\ lastReset' = <<>>
    /\ filteredCompounds' = FilteredCompoundsMemo
    /\ compoundMargins' = CompoundMarginsMemo
    /\ embeddingPoints' = EmbeddingPointsMemo
    /\ scrollOffset' = ScrollOffsetEffect(FALSE)

\* The dose handleTherapeuticDoseChange(dose) sets, given its doseRange
CommitDose(dose, range) == IF range = <<>> THEN dose ELSE ClampDose(dose, range[1])

\* handleTherapeuticDoseChange(dose) of the render whose doseRange is `range`
HandleTherapeuticDoseChangeOf(dose, range) ==
    /\ therapeuticDose' = CommitDose(dose, range)
    /\ UNCHANGED <<mounted, compounds, metadataStats, filters, loading, error,
                   embeddingIds, embeddingBasePoints, embeddingCache,
                   embeddingSelection, embeddingWeightIndex, embeddingLoading,
                   embeddingError, doseRange, dataLoad, idsLoad, loads, baseFor>>
    /\ lastReset' = <<>>
    /\ filteredCompounds' = FilteredCompoundsMemo
    /\ compoundMargins' = CompoundMarginsMemo
    /\ embeddingPoints' = EmbeddingPointsMemo
    /\ scrollOffset' = ScrollOffsetEffect(FALSE)

\* handleTherapeuticDoseChange(dose), as the viewer's dose control commits it
HandleTherapeuticDoseChange(dose) ==
    /\ ViewReady
    /\ doseRange # <<>>
    /\ HandleTherapeuticDoseChangeOf(dose, doseRange)

\* The viewer is torn down: the cleanups of its effects
Unmount ==
    /\ mounted
    /\ mounted' = FALSE
    /\ idsLoad' = [idsLoad EXCEPT !.cancelled = TRUE]
    /\ loads' = CancelLoads(loads)
    /\ UNCHANGED <<compounds, metadataStats, filters, loading, error,
                   embeddingIds, embeddingBasePoints, embeddingCache,
                   embeddingSelection, embeddingWeightIndex, embeddingLoading,
                   embeddingError, therapeuticDose, doseRange, dataLoad, baseFor>>
    /\ lastReset' = <<>>
    /\ filteredCompounds' = FilteredCompoundsMemo
    /\ compoundMargins' = CompoundMarginsMemo
    /\ embeddingPoints' = EmbeddingPointsMemo
    /\ scrollOffset' = ScrollOffsetEffect(FALSE)

(***************************************************************************)
(* The viewer after construction, and its specifications.                  *)
(***************************************************************************)
InitViewer ==
    /\ mounted = TRUE
    /\ compounds = <<>>
    /\ metadataStats = <<>>
    /\ filters = <<>>
    /\ loading = TRUE
    /\ error = <<>>
    /\ embeddingIds = <<>>
    /\ embeddingBasePoints = <<>>
    /\ embeddingCache = [i \in EMBEDDING_OPTIONS |-> <<>>]
    /\ embeddingSelection = <<>>
    /\ embeddingWeightIndex = 5
    /\ embeddingLoading = FALSE
    /\ embeddingError = <<>>
    /\ therapeuticDose = 1
    /\ doseRange = <<>>
    /\ filteredCompounds = <<>>
    /\ compoundMargins = <<>>
    /\ embeddingPoints = <<>>
    /\ scrollOffset = 0
    /\ dataLoad = <<"pending">>
    /\ idsLoad = [phase |-> "pending", cancelled |-> FALSE]
    /\ loads = <<>>
    /\ baseFor = <<>>
    /\ lastReset = <<>>

\* The debounce controllers and the scatter plot, not part of a run
DebounceIdle ==
    /\ now = 0
    /\ ctl = <<>>
    /\ nextRef = 0
    /\ commits = <<>>
    /\ events = <<>>

\* No safety metrics function has been called; the page has just been loaded:
\* rdkitState as declared, no loader script, nothing on window
UtilitiesIdle ==
    /\ metricCall = [fn |-> "none"]
    /\ window = [initRDKitModule |-> FALSE, RDKit |-> <<>>]
    /\ rdkitState = [scriptPromise |-> <<>>, modulePromise |-> <<>>]
    /\ scripts = <<>>
    /\ scriptPromises = <<>>
    /\ modulePromises = <<>>
    /\ callers = <<>>

ScatterIdle ==
    /\ isDragging = FALSE
    /\ lassoPath = <<>>
    /\ lassoPathRef = <<>>
    /\ hover = <<>>
    /\ points = <<>>
    /\ selectedIds = <<>>
    /\ emitted = <<>>

Init == InitViewer /\ DebounceIdle /\ ScatterIdle /\ UtilitiesIdle

\* Everything outside the viewer is left alone by a step of the viewer
ViewerFrame == UNCHANGED <<debounceVars, scatterVars, utilityVars>>

\* A response.text() of a call in flight resolves with one of the files its
\* url may serve
SomeTextArrives ==
    \E l \in 1 .. MaxLoads : \E csvText \in CsvResponses(5) \cup CsvResponses(6) :
       /\ l \in DOMAIN loads
       /\ csvText \in CsvResponses(loads[l].index)
       /\ TextArrives(l, csvText)

\* The filter pipeline: range commits, discrete changes, resets, selections
\* and selection clears, dose commits, over the embedding of the initial weight
Next ==
    \/ LoadDataOk /\ ViewerFrame
    \/ LoadDataFail /\ ViewerFrame
    \/ LoadIdsOk /\ ViewerFrame
    \/ LoadIdsFail /\ ViewerFrame
    \/ (\E l \in 1 .. MaxLoads : FetchResponds(l)) /\ ViewerFrame
    \/ (\E l \in 1 .. MaxLoads : FetchFails(l)) /\ ViewerFrame
    \/ SomeTextArrives /\ ViewerFrame
    \/ (\E key \in DOMAIN StatsData : \E value \in RangeInputs(key) :
          HandleRangeChange(key, value)) /\ ViewerFrame
    \/ (\E i \in DOMAIN DISCRETE_FILTERS :
          \E value \in DiscreteInputs(DISCRETE_FILTERS[i].key) :
             HandleDiscreteChange(DISCRETE_FILTERS[i].key, value)) /\ ViewerFrame
    \/ HandleResetFilters /\ ViewerFrame
    \/ (\E ids \in SubSeqs(IdsLines) : HandleEmbeddingSelectionChange(ids))
          /\ ViewerFrame
    \/ (\E dose \in DoseInputs : HandleTherapeuticDoseChange(dose)) /\ ViewerFrame
    \/ Unmount /\ ViewerFrame

Spec == Init /\ [][Next]_vars

\* The embedding loader: weight changes, overlapping loads, selections, teardown
NextEmbed ==
    \/ LoadDataOk /\ ViewerFrame
    \/ LoadDataFail /\ ViewerFrame
    \/ LoadIdsOk /\ ViewerFrame
    \/ LoadIdsFail /\ ViewerFrame
    \/ (\E l \in 1 .. MaxLoads : FetchResponds(l)) /\ ViewerFrame
    \/ (\E l \in 1 .. MaxLoads : FetchFails(l)) /\ ViewerFrame
    \/ SomeTextArrives /\ ViewerFrame
    \/ (\E index \in WeightInputs : HandleEmbeddingWeightChange(index))
          /\ ViewerFrame
    \/ (\E ids \in SubSeqs(IdsLines) : HandleEmbeddingSelectionChange(ids))
          /\ ViewerFrame
    \/ Unmount /\ ViewerFrame

SpecEmbed == Init /\ [][NextEmbed]_vars

\* The three loads of the viewer, a change of data source and the teardown
NextReload ==
    \/ LoadDataOk /\ ViewerFrame
    \/ LoadDataFail /\ ViewerFrame
    \/ ChangeDataUrl /\ ViewerFrame
    \/ ReloadDataOk /\ ViewerFrame
    \/ ReloadDataFail /\ ViewerFrame
    \/ LoadIdsOk /\ ViewerFrame
    \/ LoadIdsFail /\ ViewerFrame
    \/ (\E l \in 1 .. MaxLoads : FetchResponds(l)) /\ ViewerFrame
    \/ (\E l \in 1 .. MaxLoads : FetchFails(l)) /\ ViewerFrame
    \/ SomeTextArrives /\ ViewerFrame
    \/ (\E index \in WeightInputs : HandleEmbeddingWeightChange(index))
          /\ ViewerFrame
    \/ Unmount /\ ViewerFrame

SpecReload == Init /\ [][NextReload]_vars

(***************************************************************************)
(* The filtered list (C1).                                                 *)
(***************************************************************************)
\* The three conditions of the filter pipeline on one compound, stated on
\* the current selection, filter state and stats
PassesFilters(c) ==
    /\ embeddingSelection # <<>> =>
          \E i \in DOMAIN embeddingSelection : embeddingSelection[i] = c.name
    /\ \A key \in Range(RANGE_FILTERS) :
          ( /\ filters # <<>> /\ metadataStats # <<>>
            /\ key \in DOMAIN filters[1].range
            /\ key \in DOMAIN metadataStats[1] )
          => /\ key \in DOMAIN c
             /\ filters[1].range[key].min <= c[key]
             /\ c[key] <= filters[1].range[key].max
    /\ \A i \in DOMAIN DISCRETE_FILTERS :
          LET key == DISCRETE_FILTERS[i].key
          IN  ( /\ filters # <<>>
                /\ key \in DOMAIN filters[1].discrete
                /\ filters[1].discrete[key] \in Range(DISCRETE_FILTERS[i].options) )
              => Predicate(key, filters[1].discrete[key], Field(c, key))

\* C1: in every reachable state the displayed filtered list is the loaded
\* compound list restricted, in the original order, to the compounds that
\* are in the selection when it is non-empty, lie within every configured
\* range that has stats, and satisfy the selected option of every discrete
\* filter.
C1_FilteredListIsRestriction ==
    filteredCompounds = SelectSeq(compounds, PassesFilters)

\* All three kinds of restriction are active and the list is a proper,
\* non-empty part of the dataset
C1_Witness ==
    /\ filters # <<>>
    /\ embeddingSelection = <<"a", "b">>
    /\ filters[1].range["mw"] = [min |-> 100, max |-> 200]
    /\ filters[1].discrete["logd"] = "0to1"
    /\ Len(filteredCompounds) = 1
    /\ filteredCompounds[1].name = "b"

(***************************************************************************)
(* Reset of the filters (C10).                                             *)
(***************************************************************************)
\* C10: after any sequence of range commits and discrete changes, a reset
\* yields the FilterState the seed effect built at load: every range key with
\* stats holds {min: stats.min, max: stats.max}, range keys without stats are
\* absent, every discrete key holds the value of its first declared option.
C10_ResetReproducesSeed ==
    lastReset # <<>> =>
       /\ filters = <<SeedFilters(metadataStats[1])>>
       /\ \A i \in DOMAIN RANGE_FILTERS :
             LET key == RANGE_FILTERS[i]
             IN  IF key \in DOMAIN metadataStats[1]
                 THEN /\ key \in DOMAIN filters[1].range
                      /\ filters[1].range[key].min = metadataStats[1][key].min
                      /\ filters[1].range[key].max = metadataStats[1][key].max
                 ELSE key \notin DOMAIN filters[1].range
       /\ \A i \in DOMAIN DISCRETE_FILTERS :
             /\ DISCRETE_FILTERS[i].key \in DOMAIN filters[1].discrete
             /\ filters[1].discrete[DISCRETE_FILTERS[i].key]
                   = DISCRETE_FILTERS[i].options[1]

\* A reset has just replaced a state in which two range keys and two
\* discrete keys had been changed
C10_Witness ==
    /\ lastReset # <<>>
    /\ lastReset[1].range["mw"] = [min |-> 200, max |-> 200]
    /\ lastReset[1].range["logp"] = [min |-> 100, max |-> 100]
    /\ lastReset[1].discrete["logd"] = "lt0"
    /\ lastReset[1].discrete["fcsp3"] = "gt0.35"
    /\ filters[1].range["mw"] = [min |-> 100, max |-> 300]
    /\ "tpsa" \notin DOMAIN filters[1].range

(***************************************************************************)
(* The embedding loader (C3, C9).                                          *)
(***************************************************************************)
\* The call l settles in this step
Settles(l) == l \in DOMAIN loads /\ loads[l].phase # "done" /\ loads'[l].phase = "done"

\* C3: a coordinate load that has become stale (the weight index changed or
\* the viewer was torn down before it completed) never applies its result:
\* when it settles, the displayed base points, the selection and the cache
\* are unchanged; and every commit of base points is for the weight index
\* that is active at the moment of the commit.
C3_StaleLoadNeverApplies ==
    [][ /\ \A l \in DOMAIN loads :
             (Settles(l) /\ loads[l].cancelled) =>
                UNCHANGED <<embeddingBasePoints, embeddingSelection,
                            embeddingCache, baseFor>>
        /\ \A l \in DOMAIN loads :
             (Settles(l) /\ loads'[l].outcome = "committed") =>
                /\ ~ loads[l].cancelled
                /\ loads[l].index = embeddingWeightIndex'
                /\ baseFor' = <<loads[l].index>>
        /\ baseFor' # baseFor => baseFor' = <<embeddingWeightIndex'>>
      ]_vars

\* A call for index 5 settled stale, after the user had moved to index 6,
\* whose call committed: no cache entry for 5, the points shown are those of 6
C3_Witness ==
    /\ mounted
    /\ \E l \in DOMAIN loads :
          /\ loads[l].outcome = "stale"
          /\ loads[l].index = 5
          /\ embeddingCache[5] = <<>>
          /\ \E n \in DOMAIN loads :
                n > l /\ loads[n].index = 6 /\ loads[n].outcome = "committed"
    /\ embeddingWeightIndex = 6
    /\ baseFor = <<6>>
    /\ embeddingBasePoints = embeddingCache[6]

\* C9: the cache is keyed by weight index and append-only.  An entry is never
\* removed or replaced; a call that commits leaves its points in the cache
\* under its index; activating a cached index displays exactly the cached
\* points and issues no fetch; a call that fails does not write the cache,
\* and activating an index without an entry issues a new fetch for it
\* (activations while the ids and the compounds are loaded, the condition
\* under which the effect loads anything).
C9_CacheAppendOnly ==
    [][ /\ \A k \in EMBEDDING_OPTIONS :
             embeddingCache[k] # <<>> => embeddingCache'[k] = embeddingCache[k]
        /\ \A l \in DOMAIN loads :
             (Settles(l) /\ loads'[l].outcome = "committed") =>
                /\ embeddingCache'[loads[l].index] # <<>>
                /\ embeddingBasePoints' = embeddingCache'[loads[l].index]
        /\ \A l \in DOMAIN loads :
             (Settles(l) /\ loads'[l].outcome \in {"failed", "staleFailed"}) =>
                embeddingCache' = embeddingCache
        /\ (/\ embeddingWeightIndex' # embeddingWeightIndex
            /\ EmbeddingEffectRuns(embeddingIds', compounds')) =>
             IF embeddingCache[embeddingWeightIndex'] # <<>>
             THEN /\ embeddingBasePoints' = embeddingCache[embeddingWeightIndex']
                  /\ Len(loads') = Len(loads)
                  /\ \A l \in DOMAIN loads : loads'[l].phase = loads[l].phase
             ELSE /\ Len(loads') = Len(loads) + 1
                  /\ loads'[Len(loads')].index = embeddingWeightIndex'
                  /\ loads'[Len(loads')].phase = "fetch"
      ]_vars

\* The first call for 5 failed, a later call for 5 succeeded; 6 was loaded in
\* between, and is now displayed from the cache (all fetches are used up)
C9_Witness ==
    /\ Len(loads) = 3
    /\ loads[1].index = 5 /\ loads[1].outcome = "failed"
    /\ loads[2].index = 6 /\ loads[2].outcome = "committed"
    /\ loads[3].index = 5 /\ loads[3].outcome = "committed"
    /\ embeddingCache[5] # <<>> /\ embeddingCache[6] # <<>>
    /\ embeddingWeightIndex = 6
    /\ baseFor = <<6>>
    /\ embeddingBasePoints = embeddingCache[6]

(***************************************************************************)
(* useDebounce (src/src/hooks.ts), as used by the viewer for the dose and  *)
(* by a RangeFilterControl for its {min,max} value.                        *)
(*                                                                         *)
(* A controller is named by what it controls: "dose", or the key of its    *)
(* range filter.  Its record holds pendingValue (pending), debounceRef     *)
(* (timer: <<>> for null, else the handle with its deadline, the value and *)
(* the doseRange its callback closed over, and whether it is still armed), *)
(* the value its [value] effect last ran for (seen) and, for a range       *)
(* control, the identity of the object it is handed as value (valueRef).   *)
(* A {min,max} object is a record with its identity in `ref`: every object *)
(* literal evaluated takes a fresh one.                                    *)
(***************************************************************************)
Delay == 200

\* The clock is observed twice per quiet interval, and at every deadline
TickStep == Delay \div 2

\* The user makes at most MaxCalls inputs (control events and resets)
MaxCalls == 3

\* The range control modelled
RangeKey == "mw"

\* nextValue === pendingValue: numbers by value, objects by identity
StrictEquals(c, a, b) == IF c = "dose" THEN a = b ELSE a.ref = b.ref

\* The two values are the same dose, or the same pair of bounds
SameContent(c, a, b) ==
    IF c = "dose" THEN a = b ELSE a.min = b.min /\ a.max = b.max

\* The `value` argument of the controller's useDebounce call in the current render
CanonicalValue(c) ==
    IF c = "dose" THEN therapeuticDose
    ELSE [ref |-> ctl[c].valueRef,
          min |-> filters[1].range[c].min, max |-> filters[1].range[c].max]

\* The [value] effect has yet to run for the current value
EffectPending(c) == ~ StrictEquals(c, CanonicalValue(c), ctl[c].seen)

\* clearTimeout(debounceRef.current); the handle stays in the ref
ClearTimeout(timer) ==
    IF timer = <<>> THEN <<>> ELSE << [timer[1] EXCEPT !.live = FALSE] >>

TimerLive(c) == ctl[c].timer # <<>> /\ ctl[c].timer[1].live

\* A timer has reached its deadline: its callback runs before anything else
TimerDue == \E c \in DOMAIN ctl : TimerLive(c) /\ ctl[c].timer[1].deadline <= now

\* A plausible slip: a running timer is left to run, not restarted
TimerDeadline_NotRestarted(timer, t) ==
    IF timer # <<>> /\ timer[1].live THEN timer[1].deadline ELSE t + Delay

\* clearTimeout(old); setTimeout(..., delay) at time t: when the callback runs
TimerDeadline(timer, t) == t + Delay

\* A plausible slip: the effect sets pendingValue and leaves the timer alone
ValueEffect_KeepTimer(cs, value) == [cs EXCEPT !.pending = value, !.seen = value]

\* The [value] effect: clearTimeout, setPendingValue(value)
ValueEffect(cs, value) ==
    [cs EXCEPT !.timer = ClearTimeout(cs.timer), !.pending = value, !.seen = value]

\* scheduleChange(nextValue) of controller c at time t
ScheduleChange(cs, c, nextValue, t) ==
    IF StrictEquals(c, nextValue, cs.pending) THEN cs
    ELSE [cs EXCEPT !.pending = nextValue,
                    !.timer = << [deadline |-> TimerDeadline(cs.timer, t),
                                  value |-> nextValue, live |-> TRUE,
                                  range |-> doseRange] >>]

\* A plausible slip: the min field is kept within the stats only, not below
\* the pending max
ClampMin_StatsOnly(nextValue, stats, pendingValue) ==
    Max2(stats.min, Min2(nextValue, stats.max))

\* clampMin(nextValue) and clampMax(nextValue) of a range control
ClampMin(nextValue, stats, pendingValue) ==
    Min2(Max2(stats.min, Min2(nextValue, stats.max)), pendingValue.max)

ClampMax(nextValue, stats, pendingValue) ==
    Max2(Min2(stats.max, Max2(nextValue, stats.min)), pendingValue.min)

\* The numbers the user enters in a field of the range control: the middle
\* of the slider, and one typed value beyond each end
BoundInputs(key) ==
    LET st == StatsData[key]
    IN  {st.min - 100, (st.min + st.max) \div 2, st.max + 100}

\* The inputs made so far
InputsMade ==
    Cardinality({i \in DOMAIN events : events[i].kind \in {"schedule", "noop", "reset"}})

CanInput == mounted /\ ViewReady /\ ~ TimerDue /\ InputsMade < MaxCalls

\* The history entry of a scheduleChange call
CallEvent(c, nextValue) ==
    [kind |-> IF StrictEquals(c, nextValue, ctl[c].pending) THEN "noop" ELSE "schedule",
     c |-> c, t |-> now, value |-> nextValue, pending |-> ctl[c].pending]

\* The dose slider or number input changes: onScheduleDoseChange(dose)
ScheduleDose(dose) ==
    /\ CanInput
    /\ doseRange # <<>>
    /\ ctl' = [ctl EXCEPT !["dose"] = ScheduleChange(@, "dose", dose, now)]
    /\ events' = Append(events, CallEvent("dose", dose))
    /\ UNCHANGED <<viewerVars, now, nextRef, commits, scatterVars, utilityVars>>

\* A min field of the range control changes:
\* scheduleChange({ min: clampMin(n), max: pendingValue.max })
ScheduleRangeMin(c, n) ==
    /\ CanInput
    /\ c \in DOMAIN ctl
    /\ LET nextValue == [ref |-> nextRef + 1,
                         min |-> ClampMin(n, metadataStats[1][c], ctl[c].pending),
                         max |-> ctl[c].pending.max]
       IN  /\ ctl' = [ctl EXCEPT ![c] = ScheduleChange(@, c, nextValue, now)]
           /\ events' = Append(events, CallEvent(c, nextValue))
    /\ nextRef' = nextRef + 1
    /\ UNCHANGED <<viewerVars, now, commits, scatterVars, utilityVars>>

\* A max field of the range control changes:
\* scheduleChange({ min: pendingValue.min, max: clampMax(n) })
ScheduleRangeMax(c, n) ==
    /\ CanInput
    /\ c \in DOMAIN ctl
    /\ LET nextValue == [ref |-> nextRef + 1,
                         min |-> ctl[c].pending.min,
                         max |-> ClampMax(n, metadataStats[1][c], ctl[c].pending)]
       IN  /\ ctl' = [ctl EXCEPT ![c] = ScheduleChange(@, c, nextValue, now)]
           /\ events' = Append(events, CallEvent(c, nextValue))
    /\ nextRef' = nextRef + 1
    /\ UNCHANGED <<viewerVars, now, commits, scatterVars, utilityVars>>

\* The timer of controller c runs its callback: onChange(nextValue), then
\* debounceRef.current = null
TimerFires(c) ==
    /\ c \in DOMAIN ctl
    /\ TimerLive(c)
    /\ ctl[c].timer[1].deadline <= now
    /\ LET timer == ctl[c].timer[1]
       IN  /\ IF ~ mounted
              THEN \* the state update of an unmounted component is dropped
                   UNCHANGED viewerVars
              ELSE IF c = "dose"
              THEN HandleTherapeuticDoseChangeOf(timer.value, timer.range)
              ELSE HandleRangeChange(c, [min |-> timer.value.min,
                                         max |-> timer.value.max])
           /\ ctl' = [ctl EXCEPT ![c].timer = <<>>,
                                 ![c].valueRef = IF c = "dose" THEN @
                                                 ELSE timer.value.ref]
           /\ commits' = Append(commits, [c |-> c, t |-> now, value |-> timer.value,
                                          at |-> Len(events)])
    /\ UNCHANGED <<now, nextRef, events, scatterVars, utilityVars>>

\* The [value] effect of controller c runs for the value of the last render
SyncValue(c) ==
    /\ mounted
    /\ c \in DOMAIN ctl
    /\ EffectPending(c)
    /\ ~ TimerDue
    /\ ctl' = [ctl EXCEPT ![c] = ValueEffect(@, CanonicalValue(c))]
    /\ events' = Append(events, [kind |-> "snap", c |-> c, t |-> now,
                                 value |-> CanonicalValue(c),
                                 pending |-> ctl[c].pending])
    /\ UNCHANGED <<viewerVars, now, nextRef, commits, scatterVars, utilityVars>>

\* The reset button, with a range control on screen: the control is handed
\* the new {min,max} object of the rebuilt filter state
ResetWithControls ==
    /\ CanInput
    /\ HandleResetFilters
    /\ ctl' = [c \in DOMAIN ctl |->
                 IF c = "dose" THEN ctl[c]
                 ELSE [ctl[c] EXCEPT !.valueRef = nextRef + 1]]
    /\ nextRef' = nextRef + 1
    /\ events' = Append(events, [kind |-> "reset", c |-> RangeKey, t |-> now,
                                 value |-> <<>>, pending |-> <<>>])
    /\ UNCHANGED <<now, commits, scatterVars, utilityVars>>

\* loadData() settles and the controls are rendered: the range control mounts
\* on the seeded value
LoadDataWithControls ==
    /\ LoadDataOk
    /\ IF mounted /\ RangeKey \in DOMAIN filters'[1].range
       THEN LET value == [ref |-> nextRef + 1,
                          min |-> filters'[1].range[RangeKey].min,
                          max |-> filters'[1].range[RangeKey].max]
            IN  /\ ctl' = [c \in DOMAIN ctl \cup {RangeKey} |->
                             IF c = RangeKey
                             THEN [pending |-> value, seen |-> value,
                                   valueRef |-> value.ref, timer |-> <<>>]
                             ELSE ctl[c]]
                /\ nextRef' = nextRef + 1
       ELSE UNCHANGED <<ctl, nextRef>>
    /\ UNCHANGED <<now, commits, events, scatterVars, utilityVars>>

\* A plausible slip: a controller without the unmount cleanup
UnmountWithControls_NoCleanup ==
    /\ ~ TimerDue
    /\ Unmount
    /\ events' = Append(events, [kind |-> "unmount", c |-> "all", t |-> now,
                                 value |-> <<>>, pending |-> <<>>])
    /\ UNCHANGED <<now, ctl, nextRef, commits, scatterVars, utilityVars>>

\* The viewer is torn down: the unmount cleanup of every controller
UnmountWithControls ==
    /\ ~ TimerDue
    /\ Unmount
    /\ ctl' = [c \in DOMAIN ctl |-> [ctl[c] EXCEPT !.timer = ClearTimeout(@)]]
    /\ events' = Append(events, [kind |-> "unmount", c |-> "all", t |-> now,
                                 value |-> <<>>, pending |-> <<>>])
    /\ UNCHANGED <<now, nextRef, commits, scatterVars, utilityVars>>

\* Time passes, while no effect is waiting to run and up to the next deadline.
\* Only timers read the clock: it stands still while none is armed.
Tick ==
    /\ \E c \in DOMAIN ctl : TimerLive(c)
    /\ ~ TimerDue
    /\ \A c \in DOMAIN ctl : ~ EffectPending(c)
    /\ LET deadlines == {ctl[c].timer[1].deadline : c \in {d \in DOMAIN ctl : TimerLive(d)}}
           target == now + TickStep
       IN  now' = IF \E d \in deadlines : d < target
                  THEN CHOOSE d \in deadlines : \A e \in deadlines : d <= e
                  ELSE target
    /\ UNCHANGED <<viewerVars, ctl, nextRef, commits, events, scatterVars, utilityVars>>

\* The viewer after construction: its useDebounce call has run for the
\* initial dose
InitDebounce ==
    /\ now = 0
    /\ ctl = [c \in {"dose"} |-> [pending |-> therapeuticDose, seen |-> therapeuticDose,
                                  valueRef |-> 0, timer |-> <<>>]]
    /\ nextRef = 0
    /\ commits = <<>>
    /\ events = <<>>

InitControls == InitViewer /\ InitDebounce /\ ScatterIdle /\ UtilitiesIdle

NextDebounce ==
    \/ LoadDataWithControls
    \/ \E dose \in DoseInputs : ScheduleDose(dose)
    \/ \E n \in BoundInputs(RangeKey) : ScheduleRangeMin(RangeKey, n)
    \/ \E n \in BoundInputs(RangeKey) : ScheduleRangeMax(RangeKey, n)
    \/ \E c \in {"dose", RangeKey} : TimerFires(c)
    \/ \E c \in {"dose", RangeKey} : SyncValue(c)
    \/ ResetWithControls
    \/ UnmountWithControls
    \/ Tick

\* The debounced controllers: inputs, timers, value effects, resets, teardown
SpecDebounce == InitControls /\ [][NextDebounce]_vars

(***************************************************************************)
(* The debounced controller (C2, C7, C8).                                  *)
(***************************************************************************)
\* The entries of the history that change controller c's timer or pending
\* value: effective scheduleChange calls, runs of the value effect, teardown
ControllerEvents(c) ==
    {j \in DOMAIN events : /\ events[j].c \in {c, "all"}
                           /\ events[j].kind \in {"schedule", "snap", "unmount"}}

\* The first such entry after entry i, or 0
NextEvent(c, i) ==
    LET later == {j \in ControllerEvents(c) : j > i}
    IN  IF later = {} THEN 0 ELSE CHOOSE j \in later : \A k \in later : j <= k

\* The last such entry up to entry n, or 0
LastEvent(c, n) ==
    LET earlier == {j \in ControllerEvents(c) : j <= n}
    IN  IF earlier = {} THEN 0 ELSE CHOOSE j \in earlier : \A k \in earlier : j >= k

\* The commits of c made after entry i and before entry j (j = 0: up to now)
CommitsBetween(c, i, j) ==
    {m \in DOMAIN commits : /\ commits[m].c = c
                            /\ commits[m].at >= i
                            /\ (j = 0 \/ commits[m].at < j)}

\* A scheduleChange call whose value differs from the pending one
DistinctCall(i) ==
    /\ events[i].kind = "schedule"
    /\ ~ SameContent(events[i].c, events[i].value, events[i].pending)

\* C2: in a burst of scheduleChange calls with successive distinct values,
\* each less than the quiet interval (Delay) after the previous one, a call
\* followed by another call of the burst leads to no commit, and the last
\* call leads to exactly one commit, made Delay after it and carrying its
\* value.  (Bursts during which the controller's value effect does not run
\* and the controller is not torn down.)
C2_BurstCommitsOnceWithLastValue ==
    \A i \in DOMAIN events :
       DistinctCall(i) =>
          LET e == events[i]
              j == NextEvent(e.c, i)
              mine == CommitsBetween(e.c, i, j)
          IN  IF j # 0 /\ events[j].t < e.t + Delay
              THEN DistinctCall(j) => mine = {}
              ELSE IF now < e.t + Delay \/ (j = 0 /\ TimerLive(e.c))
                   THEN mine = {}
                   ELSE \E m \in mine :
                           /\ mine = {m}
                           /\ commits[m].t = e.t + Delay
                           /\ commits[m].value = e.value

\* Three dose calls 100 ms apart (3, 5, 3) and the single commit, of the last
\* value, 200 ms after the third call
C2_Witness ==
    \E i \in DOMAIN events :
       /\ i + 2 = Len(events)
       /\ \A k \in 0 .. 2 : DistinctCall(i + k) /\ events[i + k].c = "dose"
       /\ events[i].value = 3 /\ events[i + 1].value = 5 /\ events[i + 2].value = 3
       /\ events[i + 1].t = events[i].t + 100
       /\ events[i + 2].t = events[i].t + 200
       /\ CommitsBetween("dose", i, 0) = {Len(commits)}
       /\ commits[Len(commits)].value = 3
       /\ commits[Len(commits)].t = events[i].t + 400
       /\ therapeuticDose = 3

\* The last entry of the history after a step that added one
Added == events'[Len(events')]

\* C7: when the canonical value handed to a controller changes, its value
\* effect is due; when the effect runs, the pending value becomes the
\* canonical value and a timer in flight is cancelled; and every commit is
\* of the value of the call made Delay before it, with no run of the value
\* effect in between: a value pending before the effect ran is not committed
\* afterwards.
C7_CanonicalChangeSnapsAndCancels ==
    [][ \A c \in DOMAIN ctl :
          /\ ~ StrictEquals(c, CanonicalValue(c)', CanonicalValue(c)) =>
                EffectPending(c)'
          /\ (/\ Len(events') = Len(events) + 1
              /\ Added.kind = "snap" /\ Added.c = c) =>
                /\ StrictEquals(c, ctl'[c].pending, CanonicalValue(c)')
                /\ SameContent(c, ctl'[c].pending, CanonicalValue(c)')
                /\ ~ TimerLive(c)'
                /\ commits' = commits
          /\ (/\ Len(commits') = Len(commits) + 1
              /\ commits'[Len(commits')].c = c) =>
                LET m == commits'[Len(commits')]
                    k == LastEvent(c, m.at)
                IN  /\ k # 0
                    /\ events[k].kind = "schedule"
                    /\ events[k].value = m.value
                    /\ m.t = events[k].t + Delay
      ]_vars

\* The dose control snapped from a pending 5 to the clamped 4 its commit
\* produced, and the range control, reset while its timer was running,
\* snapped to the reset value: the timer is cancelled, nothing was committed
C7_Witness ==
    /\ \E j \in DOMAIN events :
          /\ events[j].kind = "snap" /\ events[j].c = "dose"
          /\ events[j].pending = 5 /\ events[j].value = 4
    /\ \E i, j \in DOMAIN events :
          /\ events[i].kind = "schedule" /\ events[i].c = RangeKey
          /\ events[j].kind = "snap" /\ events[j].c = RangeKey
          /\ j = NextEvent(RangeKey, i)
          /\ events[j].t < events[i].t + Delay
          /\ ~ SameContent(RangeKey, events[j].pending, events[j].value)
          /\ CommitsBetween(RangeKey, i, 0) = {}
    /\ RangeKey \in DOMAIN ctl
    /\ ctl[RangeKey].timer # <<>> /\ ~ TimerLive(RangeKey)
    /\ SameContent(RangeKey, ctl[RangeKey].pending, CanonicalValue(RangeKey))
    /\ ctl["dose"].pending = 4 /\ therapeuticDose = 4

\* C8: for the dose and for the range control alike, a scheduleChange call
\* whose value equals the pending value (the same dose, the same pair of
\* bounds) is a no-op: the pending value is unchanged, the timer is neither
\* reset nor started, and no commit results from the call.
C8_EqualValueIsNoOp ==
    [][ \A c \in DOMAIN ctl :
          /\ (/\ Len(events') = Len(events) + 1
              /\ Added.kind \in {"schedule", "noop"} /\ Added.c = c
              /\ SameContent(c, Added.value, Added.pending)) =>
                /\ SameContent(c, ctl'[c].pending, ctl[c].pending)
                /\ ctl'[c].timer = ctl[c].timer
          /\ (/\ Len(commits') = Len(commits) + 1
              /\ commits'[Len(commits')].c = c) =>
                LET k == LastEvent(c, commits'[Len(commits')].at)
                IN  k # 0 => ~ SameContent(c, events[k].value, events[k].pending)
      ]_vars

(***************************************************************************)
(* EmbeddingScatter (src/src/components/EmbeddingExplorer.tsx:119-342).    *)
(*                                                                         *)
(* Screen coordinates are exact numbers in units of 1/PxUnit px: with the  *)
(* canvas CanvasDimension wide every point of the data sets below projects *)
(* onto this grid, and pointer positions are taken on it.  Arithmetic is   *)
(* exact; the rounding of floating point is not modelled.  A position is a *)
(* pair <<x, y>>.  A domain [min, max] is kept in twentieths ([lo, hi]),   *)
(* since its padding is 5% of the span.                                    *)
(***************************************************************************)
PxUnit == 11

CanvasDimension == 304

MIN_CANVAS_DIMENSION == 100

MAX_SCATTER_DIMENSION == 600

MarginTop == 24

MarginRight == 24

MarginBottom == 48

MarginLeft == 60

Tolerance == 12

\* A drag records at most MaxPath positions
MaxPath == 4

\* updateSize(width): the side of the square canvas
Dimension == Min2(Max2(CanvasDimension, MIN_CANVAS_DIMENSION), MAX_SCATTER_DIMENSION)

PlotWidth == Max2(Dimension - MarginLeft - MarginRight, 10)

PlotHeight == Max2(Dimension - MarginTop - MarginBottom, 10)

\* xDomain / yDomain of the explorer, over the values of one coordinate
Domain(values) ==
    IF values = <<>> THEN [lo |-> 0, hi |-> 20]
    ELSE LET min == MinOf(values)
             max == MaxOf(values)
         IN  IF min = max
             THEN [lo |-> 20 * min - 10, hi |-> 20 * max + 10]
             ELSE [lo |-> 20 * min - (max - min), hi |-> 20 * max + (max - min)]

DomainX(ps) == Domain([k \in DOMAIN ps |-> ps[k].x])

DomainY(ps) == Domain([k \in DOMAIN ps |-> ps[k].y])

\* max - min || 1
SpanOf(domain) == IF domain.hi - domain.lo = 0 THEN 20 ELSE domain.hi - domain.lo

\* projectX(value), projectY(value)
ProjectX(value, domain) ==
    PxUnit * MarginLeft
      + (PxUnit * PlotWidth * (20 * value - domain.lo)) \div SpanOf(domain)

ProjectY(value, domain) ==
    PxUnit * MarginTop + PxUnit * PlotHeight
      - (PxUnit * PlotHeight * (20 * value - domain.lo)) \div SpanOf(domain)

\* The screen position of a rendered point
Projected(point, ps) ==
    << ProjectX(point.x, DomainX(ps)), ProjectY(point.y, DomainY(ps)) >>

\* The edge from polygon[i] to polygon[j] and the ray from the target to the
\* right: yi > y !== yj > y && x < ((xj - xi) * (y - yi)) / (yj - yi + EPSILON) + xi.
\* The first conjunct makes yj - yi non-zero; EPSILON, smaller than any
\* difference of grid values, decides only the case of equality.
Intersect(pi, pj, target) ==
    LET x == target[1]
        y == target[2]
        d == pj[2] - pi[2]
        lhs == (x - pi[1]) * d
        rhs == (pj[1] - pi[1]) * (y - pi[2])
    IN  /\ (pi[2] > y) # (pj[2] > y)
        /\ IF d > 0 THEN lhs < rhs \/ (lhs = rhs /\ x < pi[1])
                    ELSE lhs > rhs \/ (lhs = rhs /\ x > pi[1])

\* A plausible slip: j starts at the first vertex, the closing edge is lost
FirstJ_Open(polygon) == 1

\* j = polygon.length - 1 (the last vertex), before the first iteration
FirstJ(polygon) == Len(polygon)

\* The loop of isPointInPolygon from iteration i on
RECURSIVE PolygonLoop(_, _, _, _, _)
PolygonLoop(polygon, target, i, j, inside) ==
    IF i > Len(polygon) THEN inside
    ELSE PolygonLoop(polygon, target, i + 1, i,
                     IF Intersect(polygon[i], polygon[j], target)
                     THEN ~ inside ELSE inside)

IsPointInPolygon(polygon, target) ==
    PolygonLoop(polygon, target, 1, FirstJ(polygon), FALSE)

\* The square of Math.hypot(px - latestX, py - latestY)
Distance2(p, q) == (p[1] - q[1]) * (p[1] - q[1]) + (p[2] - q[2]) * (p[2] - q[2])

\* A plausible slip: the first point within the tolerance wins
Closer_FirstWins(distance2, best) == best = <<>>

\* distance < tolerance && distance < bestDistance, given it is within
\* the tolerance; bestDistance is Infinity (<<>>) at first
Closer(distance2, best) == best = <<>> \/ distance2 < best[1].distance2

\* The forEach of the tap branch from point k on: closestId and bestDistance
RECURSIVE ClosestLoop(_, _, _, _)
ClosestLoop(ps, latest, k, best) ==
    IF k > Len(ps) THEN best
    ELSE LET distance2 == Distance2(Projected(ps[k], ps), latest)
         IN  ClosestLoop(ps, latest, k + 1,
                IF /\ distance2 < (PxUnit * Tolerance) * (PxUnit * Tolerance)
                   /\ Closer(distance2, best)
                THEN << [id |-> ps[k].id, distance2 |-> distance2] >>
                ELSE best)

\* The forEach of the lasso branch from point k on: the ids pushed
RECURSIVE SelectedLoop(_, _, _)
SelectedLoop(ps, polygon, k) ==
    IF k > Len(ps) THEN <<>>
    ELSE (IF IsPointInPolygon(polygon, Projected(ps[k], ps))
          THEN <<ps[k].id>> ELSE <<>>) \o SelectedLoop(ps, polygon, k + 1)

\* applyLassoSelection(path): the argument of its onSelectionChange call
ApplyLassoSelection(path, ps) ==
    IF Len(path) < 3
    THEN IF Len(path) = 0 THEN <<>>
         ELSE LET best == ClosestLoop(ps, path[Len(path)], 1, <<>>)
              IN  IF best # <<>> /\ best[1].id # "" THEN <<best[1].id>> ELSE <<>>
    ELSE SelectedLoop(ps, path, 1)

\* The rendered point lists: three points of which two are 10 px apart, and
\* a single point (both domains degenerate)
PointSets ==
    { << [id |-> "a", x |-> 0, y |-> 0], [id |-> "b", x |-> 1, y |-> 0],
         [id |-> "c", x |-> 20, y |-> 20] >>,
      << [id |-> "d", x |-> 5, y |-> 5] >> }

\* The pointer positions of the events: between a and b, 12 px left of a,
\* three positions around a and b, one beyond c, and on d
PointerPositions ==
    { <<836, 2700>>, <<638, 2700>>, <<550, 2500>>, <<1100, 2500>>,
      <<825, 2900>>, <<3100, 300>>, <<1870, 1540>> }

\* onSelectionChange(ids): the owner stores the ids (handleEmbeddingSelectionChange)
\* and hands them back as selectedIds
OnSelectionChange(ids, by, length) ==
    /\ selectedIds' = ids
    /\ emitted' = << [ids |-> ids, by |-> by, length |-> length,
                      prior |-> selectedIds] >>

\* finalizeLasso()
FinalizeLasso(by) ==
    /\ OnSelectionChange(ApplyLassoSelection(lassoPathRef, points), by,
                         Len(lassoPathRef))
    /\ lassoPathRef' = <<>>
    /\ lassoPath' = <<>>
    /\ isDragging' = FALSE
    /\ UNCHANGED <<hover, points>>

\* handlePointerDown(event), the pointer at coords
HandlePointerDown(coords) ==
    IF embeddingLoading THEN UNCHANGED scatterVars
    ELSE /\ isDragging' = TRUE
         /\ lassoPathRef' = <<coords>>
         /\ lassoPath' = <<coords>>
         /\ hover' = <<>>
         /\ emitted' = <<>>
         /\ UNCHANGED <<points, selectedIds>>

\* A plausible slip: the move handler without the isDragging guard
HandlePointerMove_Unguarded(coords) ==
    /\ Len(lassoPathRef) < MaxPath
    /\ lassoPathRef' = Append(lassoPathRef, coords)
    /\ lassoPath' = Append(lassoPath, coords)
    /\ UNCHANGED <<isDragging, hover, points, selectedIds, emitted>>

\* handlePointerMove(event), the pointer at coords
HandlePointerMove(coords) ==
    IF ~ isDragging THEN UNCHANGED scatterVars
    ELSE /\ Len(lassoPathRef) < MaxPath
         /\ lassoPathRef' = Append(lassoPathRef, coords)
         /\ lassoPath' = Append(lassoPath, coords)
         /\ UNCHANGED <<isDragging, hover, points, selectedIds, emitted>>

\* handlePointerUp(event)
HandlePointerUp ==
    IF ~ isDragging THEN UNCHANGED scatterVars ELSE FinalizeLasso("up")

\* A plausible slip: leaving the plot abandons the drag without a selection
HandlePointerLeave_Discard ==
    IF isDragging
    THEN /\ lassoPathRef' = <<>>
         /\ lassoPath' = <<>>
         /\ isDragging' = FALSE
         /\ UNCHANGED <<hover, points, selectedIds, emitted>>
    ELSE UNCHANGED scatterVars

\* A plausible slip: leaving the plot finalizes whether or not a drag is on
HandlePointerLeave_Unguarded == FinalizeLasso("leave")

\* handlePointerLeave()
HandlePointerLeave ==
    IF isDragging THEN FinalizeLasso("leave") ELSE UNCHANGED scatterVars

\* A plausible slip: the enter handler without the isDragging guard
HandlePointEnter_Unguarded(k) ==
    /\ hover' = << [point |-> points[k].id,
                    position |-> << Projected(points[k], points)[1] + 8 * PxUnit,
                                    Projected(points[k], points)[2] + 8 * PxUnit >>] >>
    /\ UNCHANGED <<isDragging, lassoPath, lassoPathRef, points,
                   selectedIds, emitted>>

\* handlePointEnter(event, point), the pointer on the k-th circle
HandlePointEnter(k) ==
    IF isDragging THEN UNCHANGED scatterVars
    ELSE /\ hover' = << [point |-> points[k].id,
                         position |-> << Projected(points[k], points)[1] + 8 * PxUnit,
                                         Projected(points[k], points)[2] + 8 * PxUnit >>] >>
         /\ UNCHANGED <<isDragging, lassoPath, lassoPathRef, points,
                        selectedIds, emitted>>

\* handlePointLeave()
HandlePointLeave ==
    /\ hover' = <<>>
    /\ UNCHANGED <<isDragging, lassoPath, lassoPathRef, points, selectedIds, emitted>>

\* handleClearSelection() of the explorer; its button is outside the plot,
\* which holds the pointer capture during a drag
HandleClearSelection ==
    /\ ~ isDragging
    /\ OnSelectionChange(<<>>, "clear", 0)
    /\ UNCHANGED <<isDragging, lassoPath, lassoPathRef, hover, points>>

\* The scatter plot after its first render, for one of the point lists
InitScatter ==
    /\ isDragging = FALSE
    /\ lassoPath = <<>>
    /\ lassoPathRef = <<>>
    /\ hover = <<>>
    /\ points \in PointSets
    /\ selectedIds = <<>>
    /\ emitted = <<>>

InitLasso == InitViewer /\ DebounceIdle /\ InitScatter /\ UtilitiesIdle

\* Everything outside the scatter plot is left alone by its handlers
ScatterFrame == UNCHANGED <<viewerVars, debounceVars, utilityVars>>

NextLasso ==
    \/ \E coords \in PointerPositions : HandlePointerDown(coords) /\ ScatterFrame
    \/ \E coords \in PointerPositions : HandlePointerMove(coords) /\ ScatterFrame
    \/ HandlePointerUp /\ ScatterFrame
    \/ HandlePointerLeave /\ ScatterFrame
    \/ \E k \in DOMAIN points : HandlePointEnter(k) /\ ScatterFrame
    \/ HandlePointLeave /\ ScatterFrame
    \/ HandleClearSelection /\ ScatterFrame

\* The scatter plot: drags, taps, hovers and the clear button
SpecLasso == InitLasso /\ [][NextLasso]_vars

(***************************************************************************)
(* The lasso and the tap (C4, C5, C6).                                     *)
(***************************************************************************)
\* A drag is finalized in this step
Finalizes == isDragging /\ ~ isDragging'

\* The closed path's k-th edge
EdgeStart(path, k) == path[k]

EdgeEnd(path, k) == path[(k % Len(path)) + 1]

\* p lies on the segment from a to b
OnSegment(p, a, b) ==
    /\ (b[1] - a[1]) * (p[2] - a[2]) = (b[2] - a[2]) * (p[1] - a[1])
    /\ Min2(a[1], b[1]) <= p[1] /\ p[1] <= Max2(a[1], b[1])
    /\ Min2(a[2], b[2]) <= p[2] /\ p[2] <= Max2(a[2], b[2])

OnBoundary(path, p) ==
    \E k \in DOMAIN path : OnSegment(p, EdgeStart(path, k), EdgeEnd(path, k))

\* The edge from a to b crosses the ray that goes from p towards larger y
CrossesVerticalRay(p, a, b) ==
    /\ (a[1] > p[1]) # (b[1] > p[1])
    /\ IF b[1] > a[1]
       THEN (p[2] - a[2]) * (b[1] - a[1]) < (b[2] - a[2]) * (p[1] - a[1])
       ELSE (p[2] - a[2]) * (b[1] - a[1]) > (b[2] - a[2]) * (p[1] - a[1])

\* The even-odd rule: a ray from p crosses the closed path an odd number of times
EvenOddInside(path, p) ==
    Cardinality({k \in DOMAIN path :
                    CrossesVerticalRay(p, EdgeStart(path, k), EdgeEnd(path, k))}) % 2 = 1

\* The ids of the points ps[k], k from n on, that satisfy Keep(k), in point order
RECURSIVE IdsWhere(_, _, _)
IdsWhere(ps, Keep(_), n) ==
    IF n > Len(ps) THEN <<>>
    ELSE (IF Keep(n) THEN <<ps[n].id>> ELSE <<>>) \o IdsWhere(ps, Keep, n + 1)

\* C4: a drag finalized with a recorded path of 3 or more positions emits,
\* in point order, the ids of the rendered points whose projected position is
\* inside the closed path by the even-odd rule (a point exactly on the path
\* may fall on either side), and the selection becomes exactly that list,
\* whatever was selected before.
C4_LassoEmitsEvenOddMembers ==
    [][ (Finalizes /\ Len(lassoPathRef) >= 3) =>
          /\ emitted' # <<>>
          /\ LET ids == emitted'[1].ids
                 Member(k) ==
                    LET p == Projected(points[k], points)
                    IN  IF OnBoundary(lassoPathRef, p)
                        THEN points[k].id \in Range(ids)
                        ELSE EvenOddInside(lassoPathRef, p)
             IN  /\ ids = IdsWhere(points, Member, 1)
                 /\ selectedIds' = ids
      ]_vars

\* A lasso of three positions around a alone, made while b was selected: the
\* selection is now a
C4_Witness ==
    /\ ~ isDragging
    /\ emitted # <<>>
    /\ emitted[1].by = "up"
    /\ emitted[1].length = 3
    /\ emitted[1].prior = <<"b">>
    /\ emitted[1].ids = <<"a">>
    /\ selectedIds = <<"a">>

\* The squared distance of the k-th point to position q
PointDistance2(k, q) == Distance2(Projected(points[k], points), q)

\* The points less than Tolerance px from position q
WithinTolerance(q) ==
    {k \in DOMAIN points :
        PointDistance2(k, q) < (PxUnit * Tolerance) * (PxUnit * Tolerance)}

\* C5: a drag finalized with a recorded path of fewer than 3 positions emits
\* the id of a rendered point nearest to the last recorded position among
\* those less than 12 px from it, and the empty selection when there is none;
\* applied to a path without positions the selection rule gives the empty
\* selection; never more than one id.
C5_TapEmitsNearestWithinTolerance ==
    [][ /\ ApplyLassoSelection(<<>>, points) = <<>>
        /\ (Finalizes /\ Len(lassoPathRef) < 3) =>
              /\ emitted' # <<>>
              /\ LET ids == emitted'[1].ids
                     latest == lassoPathRef[Len(lassoPathRef)]
                     near == WithinTolerance(latest)
                 IN  /\ Len(lassoPathRef) >= 1
                     /\ Len(ids) <= 1
                     /\ near = {} => ids = <<>>
                     /\ near # {} =>
                          \E k \in near :
                             /\ ids = <<points[k].id>>
                             /\ \A m \in near :
                                   PointDistance2(k, latest) <= PointDistance2(m, latest)
                     /\ selectedIds' = ids
      ]_vars

\* A tap between a and b, 6 px from a and 4 px from b, selected b, the later
\* and nearer of the two
C5_Witness ==
    /\ ~ isDragging
    /\ emitted # <<>>
    /\ emitted[1].length = 1
    /\ emitted[1].ids = <<"b">>
    /\ emitted[1].prior = <<"a">>
    /\ selectedIds = <<"b">>

\* C6: the drag state changes only from Idle to Dragging, by a pointer-down
\* that records its position, and from Dragging to Idle, by a finalization on
\* pointer-up or pointer-leave; a finalization emits the selection that the
\* recorded path determines, the same whichever of the two events caused it,
\* and ends Idle with both paths empty.
C6_DragStateMachine ==
    [][ /\ (~ isDragging /\ isDragging') =>
              /\ Len(lassoPathRef') = 1 /\ lassoPath' = lassoPathRef'
              /\ UNCHANGED selectedIds
        /\ Finalizes =>
              /\ emitted' # <<>>
              /\ emitted'[1].by \in {"up", "leave"}
              /\ emitted'[1].length = Len(lassoPathRef)
              /\ emitted'[1].ids = ApplyLassoSelection(lassoPathRef, points)
              /\ selectedIds' = emitted'[1].ids
              /\ lassoPath' = <<>> /\ lassoPathRef' = <<>>
      ]_vars

\* A drag of three positions finalized by the pointer leaving the plot: a and
\* b are selected, the state is Idle, the paths are empty
C6_Witness ==
    /\ ~ isDragging
    /\ lassoPath = <<>> /\ lassoPathRef = <<>>
    /\ emitted # <<>>
    /\ emitted[1].by = "leave"
    /\ emitted[1].length = 3
    /\ emitted[1].ids = <<"a", "b">>
    /\ selectedIds = <<"a", "b">>

(***************************************************************************)
(* The bounds of the range filters (C11).                                  *)
(***************************************************************************)
\* The pair of bounds lies within the stats of its key, min not above max
WithinStats(value, stats) ==
    stats.min <= value.min /\ value.min <= value.max /\ value.max <= stats.max

\* C11: whatever min and max inputs were made and whichever commits and
\* resets happened, every range of the filter state and the pending value of
\* every mounted range control satisfy stats.min <= min <= max <= stats.max
\* for the stats of their key.
C11_RangeBoundsWithinStats ==
    /\ (filters # <<>> /\ metadataStats # <<>>) =>
          \A key \in DOMAIN filters[1].range :
             key \in DOMAIN metadataStats[1] =>
                WithinStats(filters[1].range[key], metadataStats[1][key])
    /\ \A c \in DOMAIN ctl \ {"dose"} :
          /\ metadataStats # <<>> /\ c \in DOMAIN metadataStats[1]
          /\ WithinStats(ctl[c].pending, metadataStats[1][c])

\* A number typed beyond an end of the slider was clamped onto the end it
\* passed, a later input was clamped onto the other bound, and the control
\* committed the range [200, 200]
C11_Witness ==
    /\ RangeKey \in DOMAIN ctl
    /\ filters # <<>>
    /\ filters[1].range[RangeKey] = [min |-> 200, max |-> 200]
    /\ ctl[RangeKey].pending.min = 200 /\ ctl[RangeKey].pending.max = 200
    /\ \E i \in DOMAIN commits : commits[i].c = RangeKey
    /\ \E i \in DOMAIN events :
          /\ events[i].kind = "schedule" /\ events[i].c = RangeKey
          /\ SameContent(RangeKey, events[i].value, events[i].pending)

(***************************************************************************)
(* Calls of the safety metrics functions.                                  *)
(***************************************************************************)
\* The compound records the functions are called on: the example of two
\* valid endpoints; only a bioactivity LD50; one invalid value of every sort
\* beside a single valid endpoint; all eight endpoints valid, the smallest
\* neither first nor last and not an integer; no LD50 at all
MetricCompounds ==
    { [name |-> "p1", cell_count_ld50 |-> Num(100), ros_ld50 |-> Num(50)],
      [name |-> "p2", bioactivity_ld50 |-> Num(1)],
      [name |-> "p3", cell_count_ld50 |-> Num(LdSentinel), cyto_area_ld50 |-> Num(0),
                      nuclei_size_ld50 |-> Num(-5), vacuoles_ld50 |-> NullValue,
                      mito_puncta_ld50 |-> StringValue(5), ros_ld50 |-> NotANumber,
                      mtt_ld50 |-> PlusInfinity, ldh_ld50 |-> Num(30),
                      bioactivity_ld50 |-> Num(2)],
      [name |-> "p4", cell_count_ld50 |-> Num(40), cyto_area_ld50 |-> Num(30),
                      nuclei_size_ld50 |-> Num(20), vacuoles_ld50 |-> Ratio(5, 2),
                      mito_puncta_ld50 |-> Num(3), ros_ld50 |-> Num(9999),
                      mtt_ld50 |-> Num(10001), ldh_ld50 |-> Num(3),
                      bioactivity_ld50 |-> Num(1)],
      [name |-> "p5"] }

\* The doses the functions are called with
MetricDoses ==
    { Num(-1), Num(0), Ratio(1, 2), Num(1), Num(3), Num(10), NotANumber,
      PlusInfinity, MinusInfinity }

\* The margins classifyMarginLevel is called with: null (<<>>) or a number
MetricMargins ==
    { <<>>, <<NotANumber>>, <<PlusInfinity>>, <<MinusInfinity>>, <<Num(-1)>>,
      <<Num(0)>>, <<Ratio(1, 2)>>, <<Ratio(99, 100)>>, <<Num(1)>>,
      <<Ratio(101, 100)>>, <<Ratio(299, 100)>>, <<Num(3)>>, <<Ratio(6, 2)>>,
      <<Ratio(999, 100)>>, <<Num(10)>>, <<Num(15)>> }

CallEndpointMargin(compound, prefix, dose) ==
    /\ metricCall' = [fn |-> "calculateEndpointMargin", compound |-> compound,
                      prefix |-> prefix, dose |-> dose,
                      result |-> CalculateEndpointMargin(compound, prefix, dose)]
    /\ UNCHANGED <<viewerVars, debounceVars, scatterVars, rdkitVars>>

CallAggregateMargin(compound, dose) ==
    /\ metricCall' = [fn |-> "calculateAggregateMargin", compound |-> compound,
                      dose |-> dose,
                      result |-> CalculateAggregateMargin(compound, dose)]
    /\ UNCHANGED <<viewerVars, debounceVars, scatterVars, rdkitVars>>

CallClassifyMarginLevel(margin) ==
    /\ metricCall' = [fn |-> "classifyMarginLevel", margin |-> margin,
                      result |-> ClassifyMarginLevel(margin)]
    /\ UNCHANGED <<viewerVars, debounceVars, scatterVars, rdkitVars>>

NextMetrics ==
    \/ \E compound \in MetricCompounds : \E dose \in MetricDoses :
          \E i \in DOMAIN TOXIC_ENDPOINT_PREFIXES :
             CallEndpointMargin(compound, TOXIC_ENDPOINT_PREFIXES[i], dose)
    \/ \E compound \in MetricCompounds : \E dose \in MetricDoses :
          CallAggregateMargin(compound, dose)
    \/ \E margin \in MetricMargins : CallClassifyMarginLevel(margin)

\* The safety metrics functions, called on any of the records, doses and margins
SpecMetrics == Init /\ [][NextMetrics]_vars

(***************************************************************************)
(* The margins (C12, C13, C14).                                            *)
(***************************************************************************)
\* The eight toxicity endpoints and the LD50 property of each
EightEndpoints ==
    {"cell_count", "cyto_area", "nuclei_size", "vacuoles", "mito_puncta",
     "ros", "mtt", "ldh"}

Ld50Of(compound, endpoint) ==
    CASE endpoint = "cell_count"  -> Field(compound, "cell_count_ld50")
      [] endpoint = "cyto_area"   -> Field(compound, "cyto_area_ld50")
      [] endpoint = "nuclei_size" -> Field(compound, "nuclei_size_ld50")
      [] endpoint = "vacuoles"    -> Field(compound, "vacuoles_ld50")
      [] endpoint = "mito_puncta" -> Field(compound, "mito_puncta_ld50")
      [] endpoint = "ros"         -> Field(compound, "ros_ld50")
      [] endpoint = "mtt"         -> Field(compound, "mtt_ld50")
      [] endpoint = "ldh"         -> Field(compound, "ldh_ld50")

\* The dose is finite and above 0
UsableDose(dose) == dose.kind = "finite" /\ dose.num > 0

\* The LD50 is present, a finite number above 0, and not the sentinel
UsableLd50(ld) ==
    /\ ld # <<>>
    /\ ld[1].kind = "finite"
    /\ ld[1].num > 0
    /\ ld[1].num # 10000 * ld[1].den

\* The number q is the quotient ld / dose
IsQuotient(q, ld, dose) ==
    /\ q.kind = "finite" /\ q.den > 0
    /\ q.num * dose.num * ld.den = ld.num * dose.den * q.den

\* C12: calculateEndpointMargin(compound, endpoint, dose) is LD50/dose when
\* the dose is finite and above 0 and the compound's LD50 for the endpoint is
\* a finite number above 0 other than the sentinel 10000, and null in every
\* other case.
C12_EndpointMargin ==
    metricCall.fn = "calculateEndpointMargin" =>
       LET ld == Ld50Of(metricCall.compound, metricCall.prefix)
       IN  IF UsableDose(metricCall.dose) /\ UsableLd50(ld)
           THEN /\ metricCall.result # <<>>
                /\ IsQuotient(metricCall.result[1], ld[1], metricCall.dose)
           ELSE metricCall.result = <<>>

\* The ros margin of the record with ros LD50 50 at dose 10 is 5
C12_Witness ==
    /\ metricCall.fn = "calculateEndpointMargin"
    /\ metricCall.compound.name = "p1"
    /\ metricCall.prefix = "ros"
    /\ metricCall.dose = Num(10)
    /\ metricCall.result # <<>>
    /\ metricCall.result[1].num = 5 * metricCall.result[1].den

\* The endpoint margins of the compound at the dose that are not null
DefinedEndpointMargins(compound, dose) ==
    { CalculateEndpointMargin(compound, e, dose)[1] :
        e \in {d \in EightEndpoints : CalculateEndpointMargin(compound, d, dose) # <<>>} }

\* C13: calculateAggregateMargin(compound, dose) is the least of the endpoint
\* margins of the eight toxicity endpoints that are not null, whatever the
\* bioactivity LD50 is, and is null exactly when all eight are null.
C13_AggregateMargin ==
    metricCall.fn = "calculateAggregateMargin" =>
       LET margins == DefinedEndpointMargins(metricCall.compound, metricCall.dose)
       IN  /\ metricCall.result = <<>> <=> margins = {}
           /\ metricCall.result # <<>> =>
                 /\ \E m \in margins : NumberEquals(m, metricCall.result[1])
                 /\ \A m \in margins : ~ LessThan(m, metricCall.result[1])

\* The record with eight valid endpoints, the least of them 2.5 (vacuoles),
\* and a bioactivity LD50 of 1: at dose 0.5 the aggregate is 5
C13_Witness ==
    /\ metricCall.fn = "calculateAggregateMargin"
    /\ metricCall.compound.name = "p4"
    /\ metricCall.dose = Ratio(1, 2)
    /\ metricCall.result # <<>>
    /\ metricCall.result[1].num = 5 * metricCall.result[1].den

\* C14: classifyMarginLevel answers for every margin: BROAD exactly for a
\* finite margin of 10 or more, MODERATE exactly from 3 up to 10, NARROW
\* exactly from 1 up to 3, and ALERT below 1 and for null, NaN and the
\* infinities; 10, 3 and 1 fall in the higher class.
C14_ClassifyMarginLevel ==
    metricCall.fn = "classifyMarginLevel" =>
       LET margin == metricCall.margin
           finite == margin # <<>> /\ margin[1].kind = "finite"
           n == margin[1].num
           d == margin[1].den
           level == metricCall.result
       IN  /\ level \in {"BROAD", "MODERATE", "NARROW", "ALERT"}
           /\ level = "BROAD" <=> (finite /\ n >= 10 * d)
           /\ level = "MODERATE" <=> (finite /\ n >= 3 * d /\ n < 10 * d)
           /\ level = "NARROW" <=> (finite /\ n >= d /\ n < 3 * d)
           /\ level = "ALERT" <=> (~ finite \/ n < d)

\* The margin 3 is MODERATE
C14_Witness ==
    /\ metricCall.fn = "classifyMarginLevel"
    /\ metricCall.margin = <<Num(3)>>
    /\ metricCall.result = "MODERATE"

(***************************************************************************)
(* The margin map and the decorated points (C15, C16).                     *)
(***************************************************************************)
\* C15: whenever the committed dose is above 0 the margin map has exactly one
\* entry per loaded compound name, its aggregate the aggregate margin of that
\* compound at the committed dose and its endpoints the eight endpoint
\* margins at that dose, whatever value a dose control is holding pending;
\* the compound list is the loaded dataset, record for record.
C15_MarginMapFollowsCommittedDose ==
    therapeuticDose > 0 =>
       /\ DOMAIN compoundMargins = {compounds[k].name : k \in DOMAIN compounds}
       /\ \A k \in DOMAIN compounds :
             LET entry == compoundMargins[compounds[k].name]
                 dose == Num(therapeuticDose)
             IN  /\ entry.aggregate = CalculateAggregateMargin(compounds[k], dose)
                 /\ DOMAIN entry.endpoints = EightEndpoints
                 /\ \A e \in EightEndpoints :
                       entry.endpoints[e] = CalculateEndpointMargin(compounds[k], e, dose)
       /\ compounds \in {<<>>, Dataset}

\* The dose 3 was committed and the dose control already holds 5: the
\* aggregate of a (least LD50 50) is 50/3
C15_Witness ==
    /\ commits # <<>>
    /\ therapeuticDose = 3
    /\ ctl["dose"].pending = 5
    /\ compounds = Dataset
    /\ compoundMargins["a"].aggregate # <<>>
    /\ compoundMargins["a"].aggregate[1].num * 3 = 50 * compoundMargins["a"].aggregate[1].den
    /\ compoundMargins["c"].aggregate = <<>>

\* C16: while the viewer is mounted, after every step (a dose commit among
\* them, with the base points unchanged) the decorated point list is absent
\* exactly when the base list is, and otherwise has the length, order, ids
\* and coordinates of the base list, the safetyMetric of each point being the
\* aggregate margin at the committed dose of the compound named by the
\* point's id, and null when there is no such compound or it has no
\* aggregate margin; no point is dropped.
C16_DecorationFollowsDose ==
    mounted =>
       /\ embeddingPoints = <<>> <=> embeddingBasePoints = <<>>
       /\ embeddingBasePoints # <<>> =>
             LET base == embeddingBasePoints[1]
                 decorated == embeddingPoints[1]
             IN  /\ Len(decorated) = Len(base)
                 /\ \A i \in DOMAIN base :
                       LET named == {k \in DOMAIN compounds :
                                        compounds[k].name = base[i].id}
                       IN  /\ decorated[i].id = base[i].id
                           /\ decorated[i].x = base[i].x
                           /\ decorated[i].y = base[i].y
                           /\ named = {} => decorated[i].safetyMetric = <<>>
                           /\ \A k \in named :
                                 decorated[i].safetyMetric =
                                    CalculateAggregateMargin(compounds[k],
                                                             Num(therapeuticDose))

\* The dose 3 is committed and three points are displayed: a with the metric
\* 50/3, b with 6/3, and x, the name of no compound, with none
C16_Witness ==
    /\ mounted
    /\ therapeuticDose = 3
    /\ embeddingPoints # <<>>
    /\ Len(embeddingPoints[1]) = 3
    /\ embeddingPoints[1][1].id = "a"
    /\ embeddingPoints[1][1].safetyMetric = <<Ratio(50, 3)>>
    /\ embeddingPoints[1][2].safetyMetric = <<Ratio(6, 3)>>
    /\ embeddingPoints[1][3].id = "x"
    /\ embeddingPoints[1][3].compound = <<>>
    /\ embeddingPoints[1][3].safetyMetric = <<>>

(***************************************************************************)
(* Stale completions and load failures (C17, C18, C19).                    *)
(***************************************************************************)
\* The l-th loadData() call settles in this step
DataSettles(l) ==
    l \in DOMAIN dataLoad /\ dataLoad[l] = "pending" /\ dataLoad'[l] = "done"

\* The loadIds() call settles in this step
IdsSettle == idsLoad.phase = "pending" /\ idsLoad'.phase = "done"

\* What the viewer shows and keeps: the state the loads write to
CommittedState ==
    <<compounds, metadataStats, doseRange, therapeuticDose, error, loading,
      filters, embeddingIds, embeddingBasePoints, embeddingSelection,
      embeddingError, embeddingLoading>>

\* C17: a load that completes after the viewer was torn down, or after a
\* newer request for the same data was started, commits nothing: the step in
\* which a stale loadData(), loadIds() or loadEmbedding() call settles leaves
\* compounds, stats, dose range, dose, errors, loading flags, ids, base points
\* and selection as they were.
C17_StaleCompletionCommitsNothing ==
    [][ /\ \A l \in DOMAIN dataLoad :
              (DataSettles(l) /\ (~ mounted \/ l < Len(dataLoad)))
                 => UNCHANGED CommittedState
        /\ (IdsSettle /\ ~ mounted) => UNCHANGED CommittedState
        /\ \A l \in DOMAIN loads :
              (Settles(l) /\ (~ mounted \/ l < Len(loads)
                              \/ loads[l].index # embeddingWeightIndex))
                 => UNCHANGED CommittedState
      ]_vars

\* loadIds() ends without an id list: it threw, or it was cancelled
IdsFailStep == IdsSettle /\ UNCHANGED embeddingIds

\* A loadEmbedding() call ends in its catch block
EmbeddingFailStep ==
    \E l \in DOMAIN loads :
       Settles(l) /\ loads'[l].outcome \in {"failed", "staleFailed"}

\* C18: a step in which the id-list load or an embedding coordinate load
\* fails leaves the global error, the compound list, the stats, the filters,
\* the selection, the ids and the base points unchanged and keeps the main
\* view as it was (only embeddingError and embeddingLoading may change); and
\* whenever an embedding error is shown, the filtered list is still the
\* compound list restricted by the filters and the selection.
C18_EmbeddingFailureIsLocal ==
    /\ [][ (IdsFailStep \/ EmbeddingFailStep)
             => /\ UNCHANGED <<error, compounds, metadataStats, filters, loading,
                               embeddingSelection, embeddingIds,
                               embeddingBasePoints, therapeuticDose, doseRange>>
                /\ ViewReady' = ViewReady
                /\ filteredCompounds' = filteredCompounds ]_vars
    /\ [](embeddingError # <<>>
            => filteredCompounds =
                  FilterCompounds(compounds, embeddingSelection, filters,
                                  metadataStats))

\* The id-list load failed, the main view is shown without a global error, and
\* a range filter committed since restricts the list
C18_Witness ==
    /\ idsLoad.phase = "done" /\ embeddingIds = <<>>
    /\ embeddingError # <<>> /\ error = <<>> /\ ViewReady
    /\ filters[1].range["mw"] # SeedFilters(metadataStats[1]).range["mw"]
    /\ Len(filteredCompounds) \in 1 .. (Len(compounds) - 1)

\* C19: a step in which a loadData() call throws (a fetch failed or the
\* dataset is not an array) sets the global error, so that the main view is
\* not rendered, and leaves the compound list, the stats, the dose range, the
\* dose and the filters unchanged; the compound list and the stats change only
\* in a step in which a loadData() call settles and commits both; and the
\* viewer holds a compound list exactly when it holds stats.
C19_DataFailureCommitsNothing ==
    /\ [][ (LoadDataFail \/ ReloadDataFail)
             => /\ error' # <<>> /\ ~ ViewReady' /\ ~ loading'
                /\ UNCHANGED <<compounds, metadataStats, doseRange,
                               therapeuticDose, filters>> ]_vars
    /\ [][ (compounds' # compounds \/ metadataStats' # metadataStats)
             => /\ \E l \in DOMAIN dataLoad : DataSettles(l)
                /\ compounds' # <<>> /\ metadataStats' # <<>>
                /\ UNCHANGED error ]_vars
    /\ []((compounds = <<>>) <=> (metadataStats = <<>>))

\* The load of the mount has thrown: the error view, with nothing committed
C19_Witness ==
    /\ mounted /\ dataLoad = <<"done">>
    /\ error # <<>> /\ ~ loading /\ ~ ViewReady
    /\ compounds = <<>> /\ metadataStats = <<>> /\ doseRange = <<>>
    /\ filters = <<>>

(***************************************************************************)
(* MoleculeRenderer: the loader of the structure renderer                  *)
(* (src/src/components/MoleculeRenderer.tsx:17-117).  A promise is a       *)
(* record with a state ("pending", "resolved", "rejected"); promises are   *)
(* named by their position in scriptPromises / modulePromises.  The module *)
(* instance made by the initRDKitModule() call of the m-th module promise  *)
(* is m.  The model is of a browser page (window is defined).              *)
(***************************************************************************)
\* The number of loadRDKitModule() calls (renderer instances) of a page
MaxCallers == 4

\* A plausible slip: loadRDKitModule() without `if (rdkitState.modulePromise)`
HasModulePromise_Never(state) == FALSE

\* if (rdkitState.modulePromise)
HasModulePromise(state) == state.modulePromise # <<>>

\* ensureRDKitScript(): the promise the caller awaits (<<>> when it is
\* Promise.resolve(), else the number of a script promise) and what the call
\* leaves in rdkitState, in the document and among the script promises
EnsureRDKitScript ==
    IF window.initRDKitModule
    THEN [awaits |-> <<>>, state |-> rdkitState, scripts |-> scripts,
          scriptPromises |-> scriptPromises]
    ELSE IF rdkitState.scriptPromise # <<>>
    THEN [awaits |-> rdkitState.scriptPromise, state |-> rdkitState,
          scripts |-> scripts, scriptPromises |-> scriptPromises]
    ELSE LET p == Len(scriptPromises) + 1
             state == [rdkitState EXCEPT !.scriptPromise = <<p>>]
         IN  IF scripts # <<>>
             THEN \* existing = document.querySelector(...): the first match
                  IF scripts[1].loaded \/ window.initRDKitModule
                  THEN [awaits |-> <<p>>, state |-> state, scripts |-> scripts,
                        scriptPromises |-> Append(scriptPromises, "resolved")]
                  ELSE [awaits |-> <<p>>, state |-> state,
                        scripts |-> [scripts EXCEPT ![1].listeners = @ \cup {p}],
                        scriptPromises |-> Append(scriptPromises, "pending")]
             ELSE [awaits |-> <<p>>, state |-> state,
                   scripts |-> Append(scripts, [loaded |-> FALSE, fired |-> FALSE,
                                                listeners |-> {p}]),
                   scriptPromises |-> Append(scriptPromises, "pending")]

\* A renderer instance calls loadRDKitModule(): the synchronous part, up to
\* the first await of the call (and of the inner function when it is started)
CallLoadRDKitModule ==
    /\ Len(callers) < MaxCallers
    /\ IF window.RDKit # <<>>
       THEN /\ callers' = Append(callers, [awaits |-> <<>>, creator |-> FALSE,
                                           state |-> "resolved",
                                           instance |-> window.RDKit])
            /\ UNCHANGED <<rdkitState, scripts, scriptPromises, modulePromises>>
       ELSE IF HasModulePromise(rdkitState)
       THEN /\ callers' = Append(callers, [awaits |-> rdkitState.modulePromise,
                                           creator |-> FALSE, state |-> "pending",
                                           instance |-> <<>>])
            /\ UNCHANGED <<rdkitState, scripts, scriptPromises, modulePromises>>
       ELSE LET m == Len(modulePromises) + 1
                e == EnsureRDKitScript
            IN  /\ modulePromises' =
                      Append(modulePromises, [state |-> "pending", step |-> "script",
                                              awaits |-> e.awaits, instance |-> <<>>])
                /\ rdkitState' = [e.state EXCEPT !.modulePromise = <<m>>]
                /\ scripts' = e.scripts
                /\ scriptPromises' = e.scriptPromises
                /\ callers' = Append(callers, [awaits |-> <<m>>, creator |-> TRUE,
                                               state |-> "pending",
                                               instance |-> <<>>])
    /\ UNCHANGED window

\* The promises in ps with the numbers in which, settled as `how`
SettleAll(ps, which, how) ==
    [p \in DOMAIN ps |-> IF p \in which THEN how ELSE ps[p]]

\* The loader script has run and its load event fires: handleLoad of every
\* listener attached so far ({once: true}).  `defines` is whether the script
\* that was served defines window.initRDKitModule
ScriptLoads(i, defines) ==
    /\ i \in DOMAIN scripts
    /\ ~ scripts[i].fired
    /\ window' = [window EXCEPT !.initRDKitModule = @ \/ defines]
    /\ scripts' = [scripts EXCEPT ![i].fired = TRUE,
                                  ![i].loaded = @ \/ scripts[i].listeners # {},
                                  ![i].listeners = {}]
    /\ scriptPromises' = SettleAll(scriptPromises, scripts[i].listeners, "resolved")
    /\ UNCHANGED <<rdkitState, modulePromises, callers>>

\* The loader script fails to load and its error event fires: handleError of
\* every listener attached so far
ScriptErrors(i) ==
    /\ i \in DOMAIN scripts
    /\ ~ scripts[i].fired
    /\ scripts' = [scripts EXCEPT ![i].fired = TRUE, ![i].listeners = {}]
    /\ rdkitState' = IF scripts[i].listeners # {}
                     THEN [rdkitState EXCEPT !.scriptPromise = <<>>]
                     ELSE rdkitState
    /\ scriptPromises' = SettleAll(scriptPromises, scripts[i].listeners, "rejected")
    /\ UNCHANGED <<window, modulePromises, callers>>

\* The inner function of the m-th module promise resumes after
\* `await ensureRDKitScript()`: it throws, or it calls initRDKitModule()
ScriptAwaited(m) ==
    /\ m \in DOMAIN modulePromises
    /\ modulePromises[m].step = "script"
    /\ LET awaited == IF modulePromises[m].awaits = <<>> THEN "resolved"
                      ELSE scriptPromises[modulePromises[m].awaits[1]]
       IN  /\ awaited # "pending"
           /\ modulePromises' =
                 IF awaited = "rejected" \/ ~ window.initRDKitModule
                 THEN [modulePromises EXCEPT ![m].state = "rejected",
                                             ![m].step = "done"]
                 ELSE [modulePromises EXCEPT ![m].step = "init"]
    /\ UNCHANGED <<window, rdkitState, scripts, scriptPromises, callers>>

\* The initRDKitModule() call of the m-th module promise settles: with the
\* instance, which is stored on window and returned, or with a rejection
\* (step "failed": the promise made a call and the call was rejected)
InitSettles(m, ok) ==
    /\ m \in DOMAIN modulePromises
    /\ modulePromises[m].step = "init"
    /\ IF ok
       THEN /\ window' = [window EXCEPT !.RDKit = <<m>>]
            /\ modulePromises' = [modulePromises EXCEPT ![m].state = "resolved",
                                                        ![m].step = "done",
                                                        ![m].instance = <<m>>]
       ELSE /\ modulePromises' = [modulePromises EXCEPT ![m].state = "rejected",
                                                        ![m].step = "failed"]
            /\ UNCHANGED window
    /\ UNCHANGED <<rdkitState, scripts, scriptPromises, callers>>

\* The c-th loadRDKitModule() call resumes when the module promise it awaits
\* or returns has settled; the call that made the promise runs the catch block
CallerResumes(c) ==
    /\ c \in DOMAIN callers
    /\ callers[c].state = "pending"
    /\ LET promise == modulePromises[callers[c].awaits[1]]
       IN  /\ promise.state # "pending"
           /\ callers' = [callers EXCEPT ![c].state = promise.state,
                                         ![c].instance = promise.instance]
           /\ rdkitState' = IF promise.state = "rejected" /\ callers[c].creator
                            THEN [rdkitState EXCEPT !.modulePromise = <<>>]
                            ELSE rdkitState
    /\ UNCHANGED <<window, scripts, scriptPromises, modulePromises>>

\* Everything outside the loader is left alone by a step of the loader
RdkitFrame == UNCHANGED <<viewerVars, debounceVars, scatterVars, metricCall>>

\* Renderer instances that start loading at any time, the loader script that
\* loads or fails, the initialisation that succeeds or fails
NextRDKit ==
    \/ CallLoadRDKitModule /\ RdkitFrame
    \/ (\E i \in 1 .. MaxCallers : \E defines \in BOOLEAN : ScriptLoads(i, defines))
          /\ RdkitFrame
    \/ (\E i \in 1 .. MaxCallers : ScriptErrors(i)) /\ RdkitFrame
    \/ (\E m \in 1 .. MaxCallers : ScriptAwaited(m)) /\ RdkitFrame
    \/ (\E m \in 1 .. MaxCallers : \E ok \in BOOLEAN : InitSettles(m, ok))
          /\ RdkitFrame
    \/ (\E c \in 1 .. MaxCallers : CallerResumes(c)) /\ RdkitFrame

SpecRDKit == Init /\ [][NextRDKit]_vars

(***************************************************************************)
(* The structure renderer is initialised once (C20).                       *)
(***************************************************************************)
\* The module promises whose initRDKitModule() call is in flight or succeeded
LiveInitCalls ==
    { m \in DOMAIN modulePromises :
         modulePromises[m].step = "init" \/ modulePromises[m].state = "resolved" }

\* The instances the loadRDKitModule() calls have returned so far
ObtainedInstances ==
    { callers[c].instance : c \in { d \in DOMAIN callers :
                                       callers[d].state = "resolved" } }

\* C20: for any number of loadRDKitModule() calls, started together or one
\* after another, the document holds at most one loader script element, at
\* most one initRDKitModule() call is in flight or has succeeded, and every
\* call that has returned a module returned the one stored on window.RDKit.
C20_RendererInitialisedOnce ==
    /\ Len(scripts) <= 1
    /\ Cardinality(LiveInitCalls) <= 1
    /\ Cardinality(ObtainedInstances) <= 1
    /\ \A c \in DOMAIN callers :
          callers[c].state = "resolved"
             => /\ callers[c].instance # <<>>
                /\ callers[c].instance = window.RDKit

\* A first initialisation was rejected and a second one succeeded: the call
\* that started the second, a call that joined it while it was in flight and
\* a call made after it have the same instance, and one script was injected
C20_Witness ==
    /\ Len(scripts) = 1
    /\ \E m \in DOMAIN modulePromises : modulePromises[m].step = "failed"
    /\ \E c1, c2, c3 \in DOMAIN callers :
          /\ callers[c1].state = "resolved" /\ callers[c1].creator
          /\ callers[c2].state = "resolved" /\ ~ callers[c2].creator
          /\ callers[c2].awaits # <<>>
          /\ callers[c3].state = "resolved" /\ callers[c3].awaits = <<>>
    /\ \E c \in DOMAIN callers : callers[c].state = "rejected"

(***************************************************************************)
(* Retry after a failed initialisation (C21).                              *)
(***************************************************************************)
\* The browser fires load or error on an injected script that has fired
\* neither, promise continuations are run, and initRDKitModule() settles
RdkitFairness ==
    /\ WF_vars((\E i \in 1 .. MaxCallers :
                   \/ \E defines \in BOOLEAN : ScriptLoads(i, defines)
                   \/ ScriptErrors(i)) /\ RdkitFrame)
    /\ WF_vars((\E m \in 1 .. MaxCallers : ScriptAwaited(m)) /\ RdkitFrame)
    /\ WF_vars((\E m \in 1 .. MaxCallers : \E ok \in BOOLEAN : InitSettles(m, ok))
                  /\ RdkitFrame)
    /\ WF_vars((\E c \in 1 .. MaxCallers : CallerResumes(c)) /\ RdkitFrame)

SpecRDKitLive == SpecRDKit /\ RdkitFairness

\* The c-th loadRDKitModule() call is a retry that has not settled: it awaits
\* a module promise made after an earlier one was rejected
PendingRetry(c) ==
    IF c \in DOMAIN callers
    THEN /\ callers[c].state = "pending"
         /\ \E m \in DOMAIN modulePromises :
               m < callers[c].awaits[1] /\ modulePromises[m].state = "rejected"
    ELSE FALSE

\* The c-th loadRDKitModule() call has resolved or rejected
HasSettled(c) ==
    IF c \in DOMAIN callers THEN callers[c].state # "pending" ELSE FALSE

\* C21: a loadRDKitModule() call made after a failed initialisation starts a
\* fresh attempt (a module promise made after the rejected one), and every
\* such call eventually settles: it resolves with the module or it rejects.
C21_RetryEventuallySettles ==
    \A c \in 1 .. MaxCallers : PendingRetry(c) ~> HasSettled(c)

(***************************************************************************)
(* The scroll position of the virtualized list (C22).                      *)
(***************************************************************************)
\* estimateRowHeight(): the estimated height of a row of the list
EstimateRowHeight == 480

\* The offsets the user scrolls the window to: the top, or one row down
ScrollOffsets == {0, EstimateRowHeight}

\* The user scrolls the window while the list is shown
ScrollWindow(offset) ==
    /\ ViewReady
    /\ scrollOffset' = offset
    /\ UNCHANGED <<mounted, compounds, metadataStats, filters, loading, error,
                   embeddingIds, embeddingBasePoints, embeddingCache,
                   embeddingSelection, embeddingWeightIndex, embeddingLoading,
                   embeddingError, therapeuticDose, doseRange, dataLoad,
                   idsLoad, loads, baseFor, lastReset, filteredCompounds,
                   compoundMargins, embeddingPoints>>

\* The list under filter changes, resets, selections and scrolling
NextScroll ==
    \/ LoadDataOk /\ ViewerFrame
    \/ LoadIdsOk /\ ViewerFrame
    \/ (\E l \in 1 .. MaxLoads : FetchResponds(l)) /\ ViewerFrame
    \/ SomeTextArrives /\ ViewerFrame
    \/ (\E key \in DOMAIN StatsData : \E value \in RangeInputs(key) :
          HandleRangeChange(key, value)) /\ ViewerFrame
    \/ (\E i \in DOMAIN DISCRETE_FILTERS :
          \E value \in DiscreteInputs(DISCRETE_FILTERS[i].key) :
             HandleDiscreteChange(DISCRETE_FILTERS[i].key, value)) /\ ViewerFrame
    \/ HandleResetFilters /\ ViewerFrame
    \/ (\E ids \in SubSeqs(IdsLines) : HandleEmbeddingSelectionChange(ids))
          /\ ViewerFrame
    \/ (\E offset \in ScrollOffsets : ScrollWindow(offset)) /\ ViewerFrame

SpecScroll == Init /\ [][NextScroll]_vars

\* C22: every step of the mounted viewer that changes the filtered result
\* set leaves the window scrolled to the top, also when the new result set
\* has as many compounds as the previous one.
C22_ScrollResetOnResultChange ==
    [][ (mounted' /\ filteredCompounds' # filteredCompounds)
           => scrollOffset' = 0 ]_vars

(***************************************************************************)
(* parseNumericArrayString on text                                         *)
(* (src/src/components/RangeFilterControl.tsx:181-198, the same function   *)
(* in src/src/components/CompoundRow.tsx:151-164).  A string is a sequence *)
(* of characters.                                                          *)
(***************************************************************************)
\* The longest input text
MaxText == 5

\* The characters of the input texts: brackets, comma, two kinds of
\* whitespace, digits, a sign and a letter
TextChars == {"[", "]", ",", " ", "\t", "1", "2", "-", "x"}

\* \s
IsWhitespace(c) == c \in {" ", "\t"}

Digits == {"1", "2"}

DigitValue(c) == IF c = "1" THEN 1 ELSE 2

\* text.replace(/c/g, by)
ReplaceAll(text, c, by) ==
    [i \in DOMAIN text |-> IF text[i] = c THEN by ELSE text[i]]

\* text.trim()
RECURSIVE TrimStart(_)
TrimStart(text) ==
    IF text # <<>> /\ IsWhitespace(Head(text)) THEN TrimStart(Tail(text)) ELSE text

RECURSIVE TrimEnd(_)
TrimEnd(text) ==
    IF text # <<>> /\ IsWhitespace(text[Len(text)])
    THEN TrimEnd(SubSeq(text, 1, Len(text) - 1))
    ELSE text

Trim(text) == TrimEnd(TrimStart(text))

\* text.split(/\s+/): `token` is the token being read, `inSeparator` whether
\* the previous character belonged to a separator
RECURSIVE SplitLoop(_, _, _)
SplitLoop(rest, token, inSeparator) ==
    IF rest = <<>> THEN <<token>>
    ELSE IF IsWhitespace(Head(rest))
    THEN IF inSeparator THEN SplitLoop(Tail(rest), token, TRUE)
         ELSE <<token>> \o SplitLoop(Tail(rest), <<>>, TRUE)
    ELSE SplitLoop(Tail(rest), Append(token, Head(rest)), FALSE)

SplitWhitespace(text) == SplitLoop(text, <<>>, FALSE)

\* A plausible slip: the token list without .filter(Boolean)
FilterBoolean_Keep(tokens) == tokens

\* tokens.filter(Boolean): the empty string is falsy
FilterBoolean(tokens) == SelectSeq(tokens, LAMBDA token : token # <<>>)

\* The value of a run of digits
RECURSIVE DecimalValue(_)
DecimalValue(digits) ==
    IF digits = <<>> THEN 0
    ELSE 10 * DecimalValue(SubSeq(digits, 1, Len(digits) - 1))
           + DigitValue(digits[Len(digits)])

IsDigits(text) == text # <<>> /\ \A i \in DOMAIN text : text[i] \in Digits

\* Number(token), for a token without whitespace over TextChars: <<n>>, or
\* <<>> for NaN.  Number("") is 0
ToNumber(token) ==
    IF token = <<>> THEN <<0>>
    ELSE IF IsDigits(token) THEN <<DecimalValue(token)>>
    ELSE IF Head(token) = "-" /\ IsDigits(Tail(token))
         THEN <<0 - DecimalValue(Tail(token))>>
    ELSE <<>>

\* The tokens of parseNumericArrayString
TokensOf(text) ==
    FilterBoolean(SplitWhitespace(Trim(
        ReplaceAll(ReplaceAll(ReplaceAll(text, "[", " "), "]", " "), ",", " "))))

\* parseNumericArrayString(input) on text: `input` is absent (<<>>) or <<text>>
ParseNumericArrayText(input) ==
    IF input = <<>> \/ input[1] = <<>> THEN <<>>
    ELSE LET tokens == TokensOf(input[1])
         IN  ParseNumericArrayString(
                 << [i \in DOMAIN tokens |-> ToNumber(tokens[i])] >>)

\* The texts of at most n characters
RECURSIVE TextsUpTo(_)
TextsUpTo(n) ==
    IF n = 0 THEN { <<>> }
    ELSE LET shorter == TextsUpTo(n - 1)
         IN  shorter \cup { Append(text, c) : text \in shorter, c \in TextChars }

ParseInputs == { <<>> } \cup { <<text>> : text \in TextsUpTo(MaxText) }

\* One call per behaviour, on any of the inputs
CallParseNumericArrayString(input) ==
    /\ metricCall.fn = "none"
    /\ metricCall' = [fn |-> "parseNumericArrayString", input |-> input,
                      result |-> ParseNumericArrayText(input),
                      again |-> ParseNumericArrayText(input)]
    /\ UNCHANGED <<viewerVars, debounceVars, scatterVars, rdkitVars>>

NextParse ==
    /\ metricCall.fn = "none"
    /\ \E input \in ParseInputs : CallParseNumericArrayString(input)

SpecParse == Init /\ [][NextParse]_vars

(***************************************************************************)
(* parseNumericArrayString (C23).                                          *)
(***************************************************************************)
IsBracket(c) == c \in {"[", "]"}

\* Comma or whitespace
IsCommaOrSpace(c) == c = "," \/ IsWhitespace(c)

\* Bracket, comma or whitespace
IsDelimiter(c) == IsBracket(c) \/ IsCommaOrSpace(c)

\* The positions at which a maximal run of non-separator characters starts
RunStarts(text, Sep(_)) ==
    { i \in DOMAIN text : ~ Sep(text[i]) /\ (i = 1 \/ Sep(text[i - 1])) }

\* The run that starts at position i
RunAt(text, Sep(_), i) ==
    LET j == CHOOSE k \in i .. Len(text) :
                /\ \A n \in i .. k : ~ Sep(text[n])
                /\ k = Len(text) \/ Sep(text[k + 1])
    IN  SubSeq(text, i, j)

\* The elements of a set of numbers in increasing order
Ascending(S) ==
    CHOOSE seq \in [1 .. Cardinality(S) -> S] :
       \A a, b \in 1 .. Cardinality(S) : a < b => seq[a] < seq[b]

\* `result` is null when no run of `text` converts to a number, and else the
\* numbers of the runs that convert, in the order of the runs
IsNumbersOfRuns(result, text, Sep(_)) ==
    LET valid == { i \in RunStarts(text, Sep) : ToNumber(RunAt(text, Sep, i)) # <<>> }
        order == Ascending(valid)
    IN  IF valid = {} THEN result = <<>>
        ELSE result = << [k \in 1 .. Cardinality(valid) |->
                            ToNumber(RunAt(text, Sep, order[k]))[1]] >>

\* The text of an input, the empty text when it is absent
TextOf(input) == IF input = <<>> THEN <<>> ELSE input[1]

\* C23 (as amended): parseNumericArrayString(text) returns, in input order,
\* the numbers of exactly those tokens that convert to a number, where the
\* tokens are the maximal runs of characters other than '[', ']', commas and
\* whitespace (a bracket separates tokens as a comma does); a token that
\* fails conversion is dropped; the result is null exactly when the input is
\* absent or empty or yields no valid number; parsing the same input again
\* yields an equal result.
C23_ParseNumericArrayString ==
    metricCall.fn = "parseNumericArrayString" =>
       /\ IsNumbersOfRuns(metricCall.result, TextOf(metricCall.input), IsDelimiter)
       /\ metricCall.result # <<>> => Len(metricCall.result[1]) > 0
       /\ metricCall.again = metricCall.result

\* "2,x 1": the middle token is dropped and the numbers keep their order
C23_Witness ==
    /\ metricCall.fn = "parseNumericArrayString"
    /\ metricCall.input = << <<"2", ",", "x", " ", "1">> >>
    /\ metricCall.result = << <<2, 1>> >>

\* C23 (as stated): the tokens are obtained by removing '[' and ']' from the
\* text and splitting what is left on commas and whitespace.
C23_TokensAfterRemovingBrackets ==
    metricCall.fn = "parseNumericArrayString" =>
       IsNumbersOfRuns(metricCall.result,
                       SelectSeq(TextOf(metricCall.input),
                                 LAMBDA c : ~ IsBracket(c)),
                       IsCommaOrSpace)

(***************************************************************************)
(* parseEmbeddingCsv on text                                               *)
(* (src/src/components/CompoundsViewer.tsx:50-88).  The text is given as   *)
(* its lines (split on line ends), a line as its segments (split on ","),  *)
(* a segment as a sequence of characters.                                  *)
(***************************************************************************)
\* The characters of a segment as a string
RECURSIVE Join(_)
Join(chars) == IF chars = <<>> THEN "" ELSE Head(chars) \o Join(Tail(chars))

\* line.trim() is empty: a line without comma that holds whitespace only
IsBlankLine(line) == Len(line) = 1 /\ Trim(line[1]) = <<>>

\* Number(segments[n]): Number(undefined) is NaN, and Number skips the
\* whitespace around the numeral
NumberOfSegment(line, n) ==
    IF n > Len(line) THEN <<>> ELSE ToNumber(Trim(line[n]))

\* A non-blank line as the row the loop reads: rawId and the two coordinates,
\* absent when not finite
RowOf(line) ==
    [id |-> Join(Trim(line[1])), x |-> NumberOfSegment(line, 2),
     y |-> NumberOfSegment(line, 3)]

\* parseEmbeddingCsv(csvText, ids) on the lines of csvText
ParseEmbeddingCsvText(csvLines, ids) ==
    LET lines == SelectSeq(csvLines, LAMBDA line : ~ IsBlankLine(line))
    IN  ParseEmbeddingCsv([i \in DOMAIN lines |-> RowOf(lines[i])], ids)

\* The longest csv text, in lines
MaxLines == 5

\* The lines of the csv texts: blank, the header, a row with its own id, a
\* row without id, a row with a whitespace id and padded numerals, a row
\* whose x is no number, a row without y, a row of empty fields
CsvLines ==
    { << <<" ">> >>,
      << <<"x">>, <<"x">>, <<"x">> >>,
      << <<"x", "1">>, <<"1">>, <<"2">> >>,
      << <<>>, <<"1">>, <<"2">> >>,
      << <<" ">>, <<" ", "2">>, <<"-", "1", " ">> >>,
      << <<>>, <<"x">>, <<"2">> >>,
      << <<>>, <<"1">> >>,
      << <<>>, <<>>, <<>> >> }

RECURSIVE CsvTextsUpTo(_)
CsvTextsUpTo(n) ==
    IF n = 0 THEN { <<>> }
    ELSE LET shorter == CsvTextsUpTo(n - 1)
         IN  shorter \cup { Append(text, line) : text \in shorter, line \in CsvLines }

\* The id lists handed to the parser
IdLists == { <<>>, <<"p">>, <<"p", "q">>, <<"p", "q", "r">> }

\* One call per behaviour, on any of the texts and id lists
CallParseEmbeddingCsv(csvLines, ids) ==
    /\ metricCall.fn = "none"
    /\ metricCall' = [fn |-> "parseEmbeddingCsv", csvLines |-> csvLines,
                      ids |-> ids,
                      result |-> ParseEmbeddingCsvText(csvLines, ids)]
    /\ UNCHANGED <<viewerVars, debounceVars, scatterVars, rdkitVars>>

NextCsv ==
    /\ metricCall.fn = "none"
    /\ \E csvLines \in CsvTextsUpTo(MaxLines) : \E ids \in IdLists :
          CallParseEmbeddingCsv(csvLines, ids)

SpecCsv == Init /\ [][NextCsv]_vars

(***************************************************************************)
(* parseEmbeddingCsv (C24).                                                *)
(***************************************************************************)
\* The data rows of a text: its non-blank lines after the first
DataRows(csvLines) ==
    LET lines == SelectSeq(csvLines, LAMBDA line : ~ IsBlankLine(line))
    IN  IF lines = <<>> THEN <<>> ELSE Tail(lines)

\* The n-th field of a row is a finite number
HasFiniteField(row, n) == n <= Len(row) /\ ToNumber(Trim(row[n])) # <<>>

\* C24: parseEmbeddingCsv discards the first non-blank line, considers the
\* first min(#data rows, #ids) data rows, drops the rows whose x or y is not
\* a finite number, and emits for each kept row at data position i the row's
\* own first field as id when it is non-empty and ids[i] otherwise, with the
\* row's x and y, in row order; the output has at most min(#data rows, #ids)
\* points.
C24_ParseEmbeddingCsv ==
    metricCall.fn = "parseEmbeddingCsv" =>
       LET rows == DataRows(metricCall.csvLines)
           ids == metricCall.ids
           total == IF Len(rows) < Len(ids) THEN Len(rows) ELSE Len(ids)
           kept == { i \in 1 .. total :
                       HasFiniteField(rows[i], 2) /\ HasFiniteField(rows[i], 3) }
           order == Ascending(kept)
           result == metricCall.result
       IN  /\ Len(result) = Cardinality(kept)
           /\ Len(result) <= total
           /\ \A k \in 1 .. Len(result) :
                 LET row == rows[order[k]]
                     own == Join(Trim(row[1]))
                 IN  /\ result[k].id = IF own # "" THEN own ELSE ids[order[k]]
                     /\ result[k].x = ToNumber(Trim(row[2]))[1]
                     /\ result[k].y = ToNumber(Trim(row[3]))[1]

\* A blank line, the header, a dropped row, a row that takes the id of its
\* own position (the second), a row with its own id, and a row beyond the ids
C24_Witness ==
    /\ metricCall.fn = "parseEmbeddingCsv"
    /\ metricCall.ids = <<"p", "q", "r">>
    /\ Len(metricCall.csvLines) = 5
    /\ IsBlankLine(metricCall.csvLines[1])
    /\ metricCall.result = << [id |-> "q", x |-> 1, y |-> 2],
                              [id |-> "x1", x |-> 1, y |-> 2] >>
    /\ Len(DataRows(metricCall.csvLines)) = 3
    /\ ~ HasFiniteField(DataRows(metricCall.csvLines)[1], 2)

(***************************************************************************)
(* histogramData (src/src/components/CompoundsViewer.tsx:598-644).         *)
(* Descriptor values and stats bounds are values of JavaScript, finite     *)
(* numbers being exact fractions.                                          *)
(***************************************************************************)
BIN_COUNT == 24

HISTOGRAM_KEYS ==
    <<"mw", "logp", "tpsa", "qed_value", "sas_score", "logd", "hbd", "hba", "fcsp3">>

\* A fraction with a positive denominator
Positive(n, d) == IF d < 0 THEN Ratio(0 - n, 0 - d) ELSE Ratio(n, d)

\* a - b, a / b and a * n for numbers; NaN and the infinities as in IEEE 754,
\* for a finite b other than 0
Minus(a, b) ==
    IF a.kind = "finite" /\ b.kind = "finite"
    THEN Positive(a.num * b.den - b.num * a.den, a.den * b.den)
    ELSE IF b.kind = "finite" THEN a ELSE NotANumber

Over(a, b) ==
    CASE a.kind = "NaN" -> NotANumber
      [] a.kind = "finite" -> Positive(a.num * b.den, a.den * b.num)
      [] OTHER -> IF (b.num > 0) = (b.den > 0) THEN a
                  ELSE IF a.kind = "Infinity" THEN MinusInfinity ELSE PlusInfinity

\* Math.floor(value * n) for a finite value
FloorOfTimes(value, n) == (value.num * n) \div value.den

\* A plausible slip: the bin index without Math.min(BIN_COUNT - 1, ...)
ClampBin_NoUpper(index) == Max2(0, index)

\* Math.min(BIN_COUNT - 1, Math.max(0, index))
ClampBin(index) == Min2(BIN_COUNT - 1, Max2(0, index))

\* compounds.forEach of histogramData: the bins (bin b at position b + 1)
\* after the compounds from position i on
RECURSIVE BinsLoop(_, _, _, _, _, _)
BinsLoop(cs, i, key, min, range, bins) ==
    IF i > Len(cs) THEN bins
    ELSE LET rawValue == Field(cs[i], key)
         IN  IF rawValue = <<>> \/ ~ IsNumber(rawValue[1])
             THEN BinsLoop(cs, i + 1, key, min, range, bins)
             ELSE LET normalized == Over(Minus(rawValue[1], min), range)
                  IN  IF normalized.kind = "NaN" \/ ~ IsFinite(normalized)
                      THEN BinsLoop(cs, i + 1, key, min, range, bins)
                      ELSE LET clamped == ClampBin(FloorOfTimes(normalized, BIN_COUNT))
                           IN  BinsLoop(cs, i + 1, key, min, range,
                                        IF clamped + 1 \in DOMAIN bins
                                        THEN [bins EXCEPT ![clamped + 1] = @ + 1]
                                        ELSE bins)

\* The stats of a key are usable: present, finite and distinct
UsableStats(stats, key) ==
    /\ key \in DOMAIN stats
    /\ IsNumber(stats[key].min) /\ IsFinite(stats[key].min)
    /\ IsNumber(stats[key].max) /\ IsFinite(stats[key].max)
    /\ ~ NumberEquals(stats[key].min, stats[key].max)

\* `bins` of a key with usable stats, before it is normalised
HistogramBins(cs, stats, key) ==
    BinsLoop(cs, 1, key, stats[key].min,
             Minus(stats[key].max, stats[key].min), [b \in 1 .. BIN_COUNT |-> 0])

\* bins.map((value) => value / maxCount), or bins when every bin is empty
NormalizedBins(bins) ==
    LET maxCount == MaxOf(bins)
    IN  IF maxCount > 0 THEN [b \in DOMAIN bins |-> Ratio(bins[b], maxCount)]
        ELSE [b \in DOMAIN bins |-> Num(bins[b])]

\* histogramData: null (<<>>), or the normalised bins of every key of
\* HISTOGRAM_KEYS with usable stats.  metadataStats is <<>> or <<stats>>
HistogramData(cs, mstats) ==
    IF Len(cs) = 0 \/ mstats = <<>> THEN <<>>
    ELSE << [key \in { k \in Range(HISTOGRAM_KEYS) : UsableStats(mstats[1], k) } |->
               NormalizedBins(HistogramBins(cs, mstats[1], key))] >>

\* The largest compound list handed to histogramData
MaxCompounds == 3

\* The mw of a compound: absent, not a number, not finite, below the range,
\* at its ends, at a bin boundary, inside, above
HistogramValues ==
    { <<>>, <<NullValue>>, <<StringValue(50)>>, <<NotANumber>>, <<PlusInfinity>>,
      <<MinusInfinity>>, <<Num(-50)>>, <<Num(0)>>, <<Ratio(100, 24)>>, <<Num(50)>>,
      <<Num(100)>>, <<Num(150)>> }

HistogramCompound(value) ==
    IF value = <<>> THEN [name |-> "n"] ELSE [name |-> "n", mw |-> value[1]]

RECURSIVE CompoundListsUpTo(_)
CompoundListsUpTo(n) ==
    IF n = 0 THEN { <<>> }
    ELSE LET shorter == CompoundListsUpTo(n - 1)
         IN  shorter \cup { Append(cs, HistogramCompound(value)) :
                               cs \in shorter, value \in HistogramValues }

\* The stats handed to histogramData: none, none for mw, a range, a reversed
\* range, an empty range, a range without a finite end
HistogramStats ==
    { <<>>,
      << [logp |-> [min |-> Num(0), max |-> Num(100)]] >>,
      << [mw |-> [min |-> Num(0), max |-> Num(100)]] >>,
      << [mw |-> [min |-> Num(100), max |-> Num(0)]] >>,
      << [mw |-> [min |-> Num(100), max |-> Num(100)]] >>,
      << [mw |-> [min |-> Num(0), max |-> PlusInfinity]] >> }

\* One call per behaviour, on any of the lists and stats
CallHistogramData(cs, mstats) ==
    /\ metricCall.fn = "none"
    /\ metricCall' = [fn |-> "histogramData", compounds |-> cs, stats |-> mstats,
                      result |-> HistogramData(cs, mstats),
                      bins |-> IF mstats # <<>> /\ UsableStats(mstats[1], "mw")
                               THEN <<HistogramBins(cs, mstats[1], "mw")>>
                               ELSE <<>>]
    /\ UNCHANGED <<viewerVars, debounceVars, scatterVars, rdkitVars>>

NextHistogram ==
    /\ metricCall.fn = "none"
    /\ \E cs \in CompoundListsUpTo(MaxCompounds) : \E mstats \in HistogramStats :
          CallHistogramData(cs, mstats)

SpecHistogram == Init /\ [][NextHistogram]_vars

(***************************************************************************)
(* The histogram bins (C25).                                               *)
(***************************************************************************)
\* The positions of the compounds whose value for `key` is a finite number
FiniteAt(cs, key) ==
    { i \in DOMAIN cs : /\ Field(cs[i], key) # <<>>
                        /\ IsNumber(Field(cs[i], key)[1])
                        /\ IsFinite(Field(cs[i], key)[1]) }

\* b is floor(((value - min) / (max - min)) * 24) clamped to [0, 23], said
\* with inequalities on t = (value - min) * 24 / (max - min)
IsBinOf(b, value, min, max) ==
    LET d == Minus(value, min)
        r == Minus(max, min)
        t == Positive(d.num * BIN_COUNT * r.den, d.den * r.num)
    IN  IF t.num < t.den THEN b = 0
        ELSE IF t.num >= (BIN_COUNT - 1) * t.den THEN b = BIN_COUNT - 1
        ELSE b * t.den <= t.num /\ t.num < (b + 1) * t.den

RECURSIVE SumOf(_)
SumOf(seq) == IF seq = <<>> THEN 0 ELSE Head(seq) + SumOf(Tail(seq))

\* C25: for a key with finite, distinct stats min and max, every compound
\* with a finite numeric value (equal to max, above max or below min
\* included) is counted in exactly one of the bins 0..23, the bin
\* floor(((value-min)/(max-min))*24) clamped to [0,23]; a value equal to max
\* is counted in bin 23; and the unnormalized bin counts sum to the number of
\* compounds with such a value.
C25_HistogramBins ==
    (metricCall.fn = "histogramData" /\ metricCall.bins # <<>>) =>
       LET cs == metricCall.compounds
           st == metricCall.stats[1]["mw"]
           bins == metricCall.bins[1]
           finite == FiniteAt(cs, "mw")
       IN  /\ DOMAIN bins = 1 .. BIN_COUNT
           /\ \A i \in finite :
                 Cardinality({ b \in 0 .. BIN_COUNT - 1 :
                                  IsBinOf(b, cs[i]["mw"], st.min, st.max) }) = 1
           /\ \A b \in 0 .. BIN_COUNT - 1 :
                 bins[b + 1] =
                    Cardinality({ i \in finite :
                                     IsBinOf(b, cs[i]["mw"], st.min, st.max) })
           /\ \A i \in finite :
                 NumberEquals(cs[i]["mw"], st.max)
                    => IsBinOf(BIN_COUNT - 1, cs[i]["mw"], st.min, st.max)
           /\ SumOf(bins) = Cardinality(finite)

\* Stats [0, 100]: the values 100 and 150 are counted in bin 23, -50 in bin 0
C25_Witness ==
    /\ metricCall.fn = "histogramData"
    /\ metricCall.stats = << [mw |-> [min |-> Num(0), max |-> Num(100)]] >>
    /\ Len(metricCall.compounds) = 3
    /\ Field(metricCall.compounds[1], "mw") = <<Num(100)>>
    /\ Field(metricCall.compounds[2], "mw") = <<Num(150)>>
    /\ Field(metricCall.compounds[3], "mw") = <<Num(-50)>>
    /\ metricCall.bins # <<>>
    /\ metricCall.bins[1][BIN_COUNT] = 2
    /\ metricCall.bins[1][1] = 1

(***************************************************************************)
(* Teardown of the debounced controller (C26).                             *)
(***************************************************************************)
\* C26: once the controllers are unmounted no timer is pending, and no step
\* after the unmount invokes the commit callback, whatever was scheduled
\* before.
C26_NoCommitAfterUnmount ==
    /\ [](~ mounted => \A c \in DOMAIN ctl : ~ TimerLive(c))
    /\ [][ ~ mounted => commits' = commits ]_vars

\* The controllers were unmounted right after a scheduleChange call that
\* started a timer: the timer was cancelled and the value never committed
C26_Witness ==
    /\ ~ mounted
    /\ Len(events) >= 2
    /\ events[Len(events)].kind = "unmount"
    /\ events[Len(events) - 1].kind = "schedule"
    /\ LET c == events[Len(events) - 1].c
       IN  /\ ctl[c].timer # <<>> /\ ~ ctl[c].timer[1].live
           /\ \A m \in DOMAIN commits :
                 commits[m].c = c => commits[m].at < Len(events) - 1

(***************************************************************************)
(* Failure of a stale embedding fetch (C27).                               *)
(***************************************************************************)
\* The step in which the l-th loadEmbedding() call fails after its effect
\* run was cleaned up
StaleFailureStep(l) ==
    /\ Settles(l)
    /\ loads[l].cancelled
    /\ loads'[l].outcome = "staleFailed"

\* C27: a fetch that fails after it became stale sets no embedding error and
\* leaves the loading flag as it was.
C27_StaleFailureIsDiscarded ==
    [][ \A l \in 1 .. MaxLoads :
           StaleFailureStep(l) => /\ embeddingError' = embeddingError
                                  /\ embeddingLoading' = embeddingLoading ]_vars

\* A fetch superseded by a weight change has failed, and so has one that
\* was still in flight at the teardown; no error is shown
C27_Witness ==
    /\ embeddingError = <<>>
    /\ \E l \in DOMAIN loads :
          /\ loads[l].outcome = "staleFailed"
          /\ \/ mounted /\ loads[l].index # embeddingWeightIndex
             \/ ~ mounted /\ loads[l].index = embeddingWeightIndex

(***************************************************************************)
(* The recorded path and the hover tooltip of the scatter plot (C28, C29). *)
(***************************************************************************)
\* C28: while the drag state is Idle both the path buffer and the path state
\* are empty; every finalize, by pointer-up as by pointer-leave, clears them;
\* and no step that starts and ends Idle adds a point.
C28_IdlePathIsEmpty ==
    /\ [](~ isDragging => lassoPathRef = <<>> /\ lassoPath = <<>>)
    /\ [][ /\ (isDragging /\ ~ isDragging')
                => lassoPathRef' = <<>> /\ lassoPath' = <<>>
           /\ (~ isDragging /\ ~ isDragging')
                => lassoPathRef' = lassoPathRef /\ lassoPath' = lassoPath ]_vars

\* A drag of three points was finalized by the pointer leaving the plot
C28_Witness ==
    /\ ~ isDragging
    /\ emitted # <<>>
    /\ emitted[1].by = "leave"
    /\ emitted[1].length >= 3
    /\ lassoPathRef = <<>>
    /\ lassoPath = <<>>

\* C29: a step that changes the hover tooltip leaves the selection alone;
\* the step that starts a drag clears the tooltip; and no tooltip is shown
\* while the state is Dragging.
C29_HoverAndDrag ==
    /\ [](isDragging => hover = <<>>)
    /\ [][ /\ hover' # hover => selectedIds' = selectedIds
           /\ (~ isDragging /\ isDragging') => hover' = <<>> ]_vars

\* A point is hovered while another one is selected
C29_Witness ==
    /\ ~ isDragging
    /\ hover # <<>>
    /\ selectedIds # <<>>
    /\ hover[1].point \notin {selectedIds[i] : i \in DOMAIN selectedIds}

(***************************************************************************)
(* The embedding loading flag (C30).                                       *)
(***************************************************************************)
\* Every loadEmbedding() call that issued a fetch has settled or belongs to
\* an effect run that was cleaned up
NoLiveFetch == \A l \in DOMAIN loads : loads[l].phase = "done" \/ loads[l].cancelled

\* C30: while the viewer is mounted, the loading flag is false in every state
\* where each started fetch has either completed or been cancelled, so the
\* scatter plot accepts a pointer-down again.
C30_LoadingOnlyWhileFetching ==
    (mounted /\ NoLiveFetch) => ~ embeddingLoading

(***************************************************************************)
(* The pending dose at rest (C31).                                         *)
(***************************************************************************)
\* C31: once no commit timer of the dose controller is pending and its
\* [value] effect has run for the committed dose, the pending value it shows
\* equals the committed dose.
C31_PendingDoseSettles ==
    (mounted /\ ~ TimerLive("dose") /\ ~ EffectPending("dose"))
        => ctl["dose"].pending = therapeuticDose

(***************************************************************************)
(* One emission per drag (C32).                                            *)
(***************************************************************************)
\* C32: the path of a drag starts at a pointer-down position (that of the
\* latest pointer-down, when another one arrives during the drag) and is
\* never empty while the drag lasts; nothing is emitted during the drag; the
\* step that ends it emits once, from the path recorded up to that step; and
\* an event received while Idle (a pointer-leave after the pointer-up, a
\* second pointer-up) emits nothing: only the Clear button does.
C32_OneEmissionPerDrag ==
    /\ [](isDragging => Len(lassoPathRef) >= 1 /\ emitted = <<>>)
    /\ [][ /\ (isDragging /\ isDragging')
                => /\ \/ /\ Len(lassoPathRef') >= Len(lassoPathRef)
                         /\ SubSeq(lassoPathRef', 1, Len(lassoPathRef)) = lassoPathRef
                      \/ Len(lassoPathRef') = 1   \* a further pointer-down
                   /\ selectedIds' = selectedIds
           /\ Finalizes
                => /\ Len(emitted') = 1
                   /\ emitted'[1].length >= 1
                   /\ emitted'[1].ids = ApplyLassoSelection(lassoPathRef, points)
                   /\ emitted'[1].prior = selectedIds
           /\ (~ isDragging /\ ~ isDragging' /\ emitted' # emitted)
                => emitted'[1].by = "clear" ]_vars

\* A drag that selected points ended by pointer-up; pointer-leave events
\* that follow leave this state as it is
C32_Witness ==
    /\ ~ isDragging
    /\ emitted # <<>>
    /\ emitted[1].by = "up"
    /\ emitted[1].length >= 3
    /\ emitted[1].ids # <<>>
    /\ selectedIds = emitted[1].ids

(***************************************************************************)
(* A value scheduled after a commit (C33).                                 *)
(***************************************************************************)
\* The last commit controller c made, or 0
LastCommit(c) ==
    LET mine == {m \in DOMAIN commits : commits[m].c = c}
    IN  IF mine = {} THEN 0 ELSE CHOOSE m \in mine : \A n \in mine : m >= n

\* The armed timer of c belongs to a scheduleChange call made after c's last
\* commit fired, and since that commit nothing but c's own commit has changed
\* the canonical value (no reset)
ScheduledAfterLastCommit(c) ==
    LET m == LastCommit(c)
        k == LastEvent(c, Len(events))
    IN  /\ TimerLive(c)
        /\ m # 0 /\ k # 0
        /\ events[k].kind = "schedule"
        /\ commits[m].at < k
        /\ \A j \in (commits[m].at + 1) .. Len(events) : events[j].kind # "reset"

\* C33: the run of the value effect that processes the echo of a commit
\* leaves armed the timer of a value scheduled after that commit fired, so
\* that the value is committed when its timer runs out.
C33_EchoKeepsLaterTimer ==
    [][ \A c \in DOMAIN ctl :
          (/\ Len(events') = Len(events) + 1
           /\ Added.kind = "snap" /\ Added.c = c
           /\ ScheduledAfterLastCommit(c)) => TimerLive(c)' ]_vars

(***************************************************************************)
(* The embedding error next to displayed points (C34).                     *)
(***************************************************************************)
\* The step commits base points for the active weight index: from the cache
\* when the index changes to a cached one, or from a fetch that succeeds
CommitsFromCache ==
    /\ embeddingWeightIndex' # embeddingWeightIndex
    /\ EmbeddingEffectRuns(embeddingIds', compounds')
    /\ CachedBase(embeddingWeightIndex') # <<>>

CommitsFromFetch ==
    \E l \in DOMAIN loads : Settles(l) /\ loads'[l].outcome = "committed"

\* C34: after a step that commits base points for the active weight index,
\* from the cache or from a successful fetch, the embedding error is null.
C34_NoErrorBesideCommittedPoints ==
    [][ (CommitsFromCache \/ CommitsFromFetch)
           => /\ baseFor' = <<embeddingWeightIndex'>>
              /\ embeddingError' = <<>> ]_vars

(***************************************************************************)
(* The selection and the displayed base points (C35).                      *)
(***************************************************************************)
\* The ids of the base points on display
BaseIds ==
    IF embeddingBasePoints = <<>> THEN {}
    ELSE {embeddingBasePoints[1][i].id : i \in DOMAIN embeddingBasePoints[1]}

DatasetNarrow == << [Dataset[2] EXCEPT !.doses = << <<2>>, <<3>> >>], Dataset[3] >>

\* Everything outside the viewer but the clock-free part of the controllers
ReloadFrame == UNCHANGED <<debounceVars, scatterVars, utilityVars>>

\* The owner hands the viewer another dataUrl, the controls on screen
ChangeDataUrlWithControls == ~ TimerDue /\ ChangeDataUrl /\ ReloadFrame

\* The loadData() call for the later dataUrl settles
ReloadWithControls ==
    /\ ~ TimerDue
    /\ \E l \in 2 .. MaxDataLoads : LoadDataOkOf(l, DatasetNarrow, StatsData)
    /\ ReloadFrame

NextDoseReload ==
    \/ LoadDataWithControls
    \/ ChangeDataUrlWithControls
    \/ ReloadWithControls
    \/ \E dose \in DoseInputs : ScheduleDose(dose)
    \/ TimerFires("dose")
    \/ SyncValue("dose")
    \/ UnmountWithControls
    \/ Tick

\* The dose controller while the viewer is handed a second data source
SpecDoseReload == InitControls /\ [][NextDoseReload]_vars

\* C36: whenever a dose range is known, the committed therapeutic dose lies
\* within it.
C36_DoseWithinRange ==
    doseRange # <<>> =>
       /\ doseRange[1].min <= therapeuticDose
       /\ therapeuticDose <= doseRange[1].max

(***************************************************************************)
(* A range control among the other filter controls (C37).                  *)
(*                                                                         *)
(* The range control of RangeKey is debounced; the selects commit at once, *)
(* and the control of another descriptor commits through its own timer,    *)
(* seen here as its onChange call.  These changes are kept in the history  *)
(* (kind "change").                                                        *)
(***************************************************************************)
\* The other range control modelled
OtherRangeKey == "logp"

\* The filter changes made outside the control of RangeKey so far
ChangesMade == Cardinality({i \in DOMAIN events : events[i].kind = "change"})

CanChange == CanInput /\ ChangesMade + InputsMade < MaxCalls

ChangeEvent(key, value) ==
    [kind |-> "change", c |-> key, t |-> now, value |-> value, pending |-> <<>>]

\* A select changes: onDiscreteChange(key, value)
ChangeDiscreteWithControls(key, value) ==
    /\ CanChange
    /\ HandleDiscreteChange(key, value)
    /\ events' = Append(events, ChangeEvent(key, value))
    /\ UNCHANGED <<now, ctl, nextRef, commits, scatterVars, utilityVars>>

\* The control of the other descriptor commits: onRangeChange(key, value)
CommitOtherRangeWithControls(value) ==
    /\ CanChange
    /\ HandleRangeChange(OtherRangeKey, value)
    /\ events' = Append(events, ChangeEvent(OtherRangeKey, value))
    /\ UNCHANGED <<now, ctl, nextRef, commits, scatterVars, utilityVars>>

\* The selects the user changes
ChangedSelects == {"hbd", "fcsp3"}

NextFilterControls ==
    \/ LoadDataWithControls
    \/ CanChange /\ \E n \in BoundInputs(RangeKey) : ScheduleRangeMin(RangeKey, n)
    \/ CanChange /\ \E n \in BoundInputs(RangeKey) : ScheduleRangeMax(RangeKey, n)
    \/ TimerFires(RangeKey)
    \/ \E c \in {"dose", RangeKey} : SyncValue(c)
    \/ \E key \in ChangedSelects : \E value \in DiscreteInputs(key) :
          ChangeDiscreteWithControls(key, value)
    \/ \E value \in RangeInputs(OtherRangeKey) : CommitOtherRangeWithControls(value)
    \/ UnmountWithControls
    \/ Tick

\* A debounced range control, the selects and another range control
SpecFilterControls == InitControls /\ [][NextFilterControls]_vars

\* The keys whose range entry, or discrete entry, differs after the step
ChangedRange ==
    {k \in DOMAIN filters[1].range \cup DOMAIN filters'[1].range :
        \/ k \notin DOMAIN filters[1].range
        \/ k \notin DOMAIN filters'[1].range
        \/ filters'[1].range[k] # filters[1].range[k]}

ChangedDiscrete ==
    {k \in DOMAIN filters[1].discrete \cup DOMAIN filters'[1].discrete :
        \/ k \notin DOMAIN filters[1].discrete
        \/ k \notin DOMAIN filters'[1].discrete
        \/ filters'[1].discrete[k] # filters[1].discrete[k]}

DiscreteKeys == {DISCRETE_FILTERS[i].key : i \in DOMAIN DISCRETE_FILTERS}

\* C37: a commit of a range filter, from the timer of the debounced control
\* or from another control, sets the range entry of its key to the committed
\* value and leaves every other range entry and every discrete entry as it
\* was before the step; a change of a select sets the discrete entry of its
\* key and leaves every other entry as it was.
C37_CommitChangesOnlyItsKey ==
    [][ (filters # <<>> /\ filters' # <<>>) =>
          /\ (/\ Len(commits') = Len(commits) + 1
              /\ commits'[Len(commits')].c # "dose") =>
                LET m == commits'[Len(commits')]
                IN  /\ ChangedRange \subseteq {m.c}
                    /\ ChangedDiscrete = {}
                    /\ filters'[1].range[m.c] =
                          [min |-> m.value.min, max |-> m.value.max]
          /\ (/\ Len(events') = Len(events) + 1
              /\ Added.kind = "change") =>
                IF Added.c \in DiscreteKeys
                THEN /\ ChangedDiscrete \subseteq {Added.c}
                     /\ ChangedRange = {}
                     /\ filters'[1].discrete[Added.c] = Added.value
                ELSE /\ ChangedRange \subseteq {Added.c}
                     /\ ChangedDiscrete = {}
                     /\ filters'[1].range[Added.c] = Added.value
      ]_vars

\* The timer of the RangeKey control fired after a select and the other
\* range control had changed the filters since its scheduleChange call: the
\* three entries hold the three values
C37_Witness ==
    \E m \in DOMAIN commits :
       /\ commits[m].c = RangeKey
       /\ m = Len(commits)
       /\ LET k == LastEvent(RangeKey, commits[m].at)
          IN  /\ k # 0 /\ events[k].kind = "schedule"
              /\ \E i, j \in (k + 1) .. commits[m].at :
                    /\ events[i].kind = "change" /\ events[i].c \in DiscreteKeys
                    /\ events[j].kind = "change" /\ events[j].c = OtherRangeKey
                    /\ filters[1].discrete[events[i].c] = events[i].value
                    /\ events[i].value # "any"
                    /\ filters[1].range[OtherRangeKey] = events[j].value
                    /\ events[j].value # StatsData[OtherRangeKey]
       /\ filters[1].range[RangeKey] =
             [min |-> commits[m].value.min, max |-> commits[m].value.max]
       /\ filters[1].range[RangeKey] # StatsData[RangeKey]

(***************************************************************************)
(* What a reset leaves alone (C38).                                        *)
(***************************************************************************)
\* The names of the compounds listed
ListedNames == {filteredCompounds[i].name : i \in DOMAIN filteredCompounds}

\* C38: the step of handleResetFilters leaves the embedding selection, the
\* committed dose, the dose range, the active weight index, the embedding
\* cache and the displayed base points unchanged, and after it the filtered
\* list is the dataset restricted to the selection, when there is one, and
\* to the seeded filters.
C38_ResetKeepsSelection ==
    /\ [][ lastReset' # <<>>
             => UNCHANGED <<embeddingSelection, therapeuticDose, doseRange,
                            embeddingWeightIndex, embeddingCache,
                            embeddingBasePoints, compounds, metadataStats>> ]_vars
    /\ [](lastReset # <<>> =>
            /\ filteredCompounds =
                  FilterCompounds(compounds, embeddingSelection,
                                  <<SeedFilters(metadataStats[1])>>, metadataStats)
            /\ embeddingSelection # <<>> =>
                  ListedNames \subseteq Range(embeddingSelection))

\* A reset has just replaced changed filters while two points were selected:
\* the list holds compounds of the selection only, and not the whole dataset
C38_Witness ==
    /\ lastReset # <<>>
    /\ lastReset[1] # filters[1]
    /\ Len(embeddingSelection) = 2
    /\ filteredCompounds # <<>>
    /\ ListedNames \subseteq Range(embeddingSelection)
    /\ Len(filteredCompounds) < Len(compounds)


(***************************************************************************)
(* The margins of one compound at two doses (C39).                         *)
(***************************************************************************)
\* The margins and the class of the compound at the dose: the endpoints
\* record of getEndpointMargins, calculateAggregateMargin, and
\* classifyMarginLevel of the aggregate and of every endpoint margin
MarginsAt(compound, dose) ==
    LET endpoints == GetEndpointMargins(compound, dose)
        aggregate == CalculateAggregateMargin(compound, dose)
    IN  [endpoints |-> endpoints,
         aggregate |-> aggregate,
         level |-> ClassifyMarginLevel(aggregate),
         endpointLevels |-> [e \in DOMAIN endpoints |-> ClassifyMarginLevel(endpoints[e])]]

\* The functions are called on one compound at a first and at a second dose
CallAtTwoDoses(compound, d1, d2) ==
    /\ metricCall' = [fn |-> "twoDoses", compound |-> compound,
                      d1 |-> d1, d2 |-> d2,
                      at1 |-> MarginsAt(compound, d1),
                      at2 |-> MarginsAt(compound, d2)]
    /\ UNCHANGED <<viewerVars, debounceVars, scatterVars, rdkitVars>>

NextTwoDoses ==
    /\ metricCall.fn = "none"
    /\ \E compound \in MetricCompounds : \E d1 \in MetricDoses :
          \E d2 \in MetricDoses : CallAtTwoDoses(compound, d1, d2)

\* The safety metrics functions, called on any record at any two doses
SpecTwoDoses == Init /\ [][NextTwoDoses]_vars

\* The place of a class in the order ALERT < NARROW < MODERATE < BROAD
LevelRank(level) ==
    CASE level = "ALERT" -> 0
      [] level = "NARROW" -> 1
      [] level = "MODERATE" -> 2
      [] level = "BROAD" -> 3

\* a <= b, for numbers
LessOrEqual(a, b) == LessThan(a, b) \/ NumberEquals(a, b)

\* The margin at the second dose is not above the margin at the first; a null
\* margin is compared with nothing
MarginNotAbove(m2, m1) == (m1 # <<>> /\ m2 # <<>>) => LessOrEqual(m2[1], m1[1])

\* The endpoints whose margin is null
NullEndpoints(endpoints) == {e \in DOMAIN endpoints : endpoints[e] = <<>>}

\* What the two results of one compound satisfy, the second dose the larger
DoseMonotone(at1, at2) ==
    /\ \A e \in EightEndpoints : MarginNotAbove(at2.endpoints[e], at1.endpoints[e])
    /\ MarginNotAbove(at2.aggregate, at1.aggregate)
    /\ NullEndpoints(at2.endpoints) = NullEndpoints(at1.endpoints)
    /\ (at2.aggregate = <<>>) <=> (at1.aggregate = <<>>)
    /\ LevelRank(at2.level) <= LevelRank(at1.level)
    /\ \A e \in EightEndpoints :
          LevelRank(at2.endpointLevels[e]) <= LevelRank(at1.endpointLevels[e])

=============================================================================
